---- MODULE Spec2Model ----
(***************************************************************************)
(* RelayService (src/src/components/profile/ProfilePage.tsx, lines 328-793)*)
(* as a state machine: the engine's fields, one record per call in flight, *)
(* the event loop's timers and the callbacks of the underlying source.     *)
(***************************************************************************)
EXTENDS Integers, Sequences, FiniteSets, TLC

VARIABLES
    now,            \* Date.now(), in ms
    eventStore,     \* RelayService.eventStore: NoStore or a store
    relayUrls,      \* RelayService.relayUrls
    lastActionAt,   \* RelayService.lastActionAt, 0 where the Map has no entry
    op,             \* the calls in flight, one per caller
    callers,        \* the callers that use the service
    calls,          \* invocations made so far
    storeRelays,    \* the relay set the event store was given through its setRelays
    raised,         \* what the last call of setRelays threw
    held,           \* the records the relays hold for the source to deliver
    seen,           \* the deliveries of the source, as a probe on the source logs them
    client          \* the state of the page component that uses the service

vars == <<now, eventStore, relayUrls, lastActionAt, op, callers, calls,
          storeRelays, raised, held, seen, client>>

----------------------------------------------------------------------------
\* Bounds of the model.

\* invocations in one behaviour
MaxCalls == 2
\* callbacks one source delivers to one subscription
MaxEmit == 2

\* the callers that may have a call in flight
Callers == {"c1", "c2"}

----------------------------------------------------------------------------
\* Program constants.

minProfileQueryIntervalMs == 300
minPublishIntervalMs == 750
maxProfileContentSize == 10000
MAX_ROLE_LENGTH == 100
PubkeyLength == 64
fetchProfileTimeoutMs == 5000
fetchRoleTagTimeoutMs == 5000
fetchFollowListTimeoutMs == 10000
fetchMultipleTimeoutMs == 1000
queryProfilesTimeoutMs == 10000
publishTimeoutMs == 1000
defaultLimit == 100

\* Date.now() when the service is constructed: later than every throttle
\* interval after the epoch, so that a first call never waits.
ConstructedAt == 2 * minPublishIntervalMs
\* The callers make their calls before the first timer has fired; what a
\* call does afterwards takes as long as its timers say.
LastStart == ConstructedAt

----------------------------------------------------------------------------
\* Strings of the model and what the platform computes of them.

PkA == "pkA"
PkB == "pkB"
PkShort == "pkShort"
PkNotHex == "pkNotHex"
\* 65 hex digits, and 64 hex digits in upper case
PkLong == "pkLong"
PkUpper == "pkUpper"
\* a string of unpaired surrogate code units
Lone == "lone"

StrLength(s) ==
    CASE s \in {PkA, PkB, PkNotHex, PkUpper} -> 64
      [] s = PkLong -> 65
      [] s = PkShort -> 63
      [] s = "" -> 0
      [] s \in {"admin", "staff", "alice", "about", "extra"} -> 5
      [] s = "name" -> 4
      [] s \in {"picture", "website"} -> 7
      [] s = "display_name" -> 12
      [] s = Lone -> 2000
      [] s = " admin " -> 7
      [] s = "bad!" -> 4
      [] s = "   " -> 3
      [] OTHER -> 1

\* the length of s between the quotes of JSON.stringify(s): an unpaired
\* surrogate is written as an escape of six characters
EscapedLength(s) == IF s = Lone THEN 6 * StrLength(s) ELSE StrLength(s)

\* /^[0-9a-fA-F]+$/.test(s)
IsHex(s) == s \in {PkA, PkB, PkShort, PkLong, PkUpper}

\* String.prototype.trim
Trim(s) ==
    CASE s = " admin " -> "admin"
      [] s = "   " -> ""
      [] OTHER -> s

\* ROLE_PATTERN.test(s)
MatchesRolePattern(s) == s \in {"admin", "staff", "alice", " admin ", "   "}

\* new URL(url): the protocol and hostname, or a TypeError
ParseURL(url) ==
    CASE url = "wss://r1" -> [ok |-> TRUE, protocol |-> "wss:", hostname |-> "r1"]
      [] url = "ws://r2" -> [ok |-> TRUE, protocol |-> "ws:", hostname |-> "r2"]
      [] url = "http://x" -> [ok |-> TRUE, protocol |-> "http:", hostname |-> "x"]
      [] url = "wss://relay.damus.io" ->
           [ok |-> TRUE, protocol |-> "wss:", hostname |-> "relay.damus.io"]
      [] OTHER -> [ok |-> FALSE, protocol |-> "", hostname |-> ""]

isValidRoleTag(role) ==
    LET trimmed == Trim(role)
    IN  /\ StrLength(trimmed) > 0
        /\ StrLength(trimmed) <= MAX_ROLE_LENGTH
        /\ MatchesRolePattern(trimmed)

\* isValidPubkey as it would be without the test of the length
isValidPubkeyAnyLength(pubkey) == IsHex(pubkey)

isValidPubkey(pubkey) == StrLength(pubkey) = PubkeyLength /\ IsHex(pubkey)

isValidRelayUrl(url) ==
    LET parsed == ParseURL(url)
    IN  /\ parsed.ok
        /\ parsed.protocol \in {"ws:", "wss:"}
        /\ StrLength(parsed.hostname) > 0

----------------------------------------------------------------------------
\* Values a promise settles with.

Null == [t |-> "null"]
Undefined == [t |-> "undefined"]
Metadata(m) == [t |-> "metadata", v |-> m]
Str(s) == [t |-> "string", v |-> s]
List(l) == [t |-> "list", v |-> l]
MapOf(f) == [t |-> "map", v |-> f]
Bool(b) == [t |-> "bool", v |-> b]
Num(n) == [t |-> "number", v |-> n]
Error(e) == [t |-> "error", v |-> e]
\* the Map object `profiles` itself, not a copy of it
ProfilesRef == [t |-> "profiles"]

EmptyMap == [k \in {} |-> Null]

ErrNotInitialized == Error("RelayService not initialized")
ErrNoRelays == Error("No relays configured")
ErrNoPublish == Error("EventStore does not support publish method")
ErrInvalidPubkey == Error("Invalid pubkey format for follow list entry.")
ErrInvalidRelay == Error("Invalid relay URL format for follow list entry.")
ErrInvalidRelayUrl == Error("Invalid relay URL format")
\* `subscription` read inside subscribe(), before its initialisation
ErrReference == Error("ReferenceError: subscription")
ErrTransport == Error("transport")
ErrSign == Error("sign")

----------------------------------------------------------------------------
\* Records and what the source delivers.

\* JSON.parse of a content string: a SyntaxError or the parsed value
JsonError == [t |-> "syntaxError"]
JsonObject(fields) == [t |-> "object", fields |-> fields]
JsonArray == [t |-> "array"]
JsonNull == [t |-> "null"]
JsonNumber == [t |-> "number"]
JsonString == [t |-> "string"]
JsonBoolean == [t |-> "boolean"]

\* the content of a record: a string of some length, or no string at all
Content(len, json) == [str |-> TRUE, len |-> len, json |-> json]
NoContent == [str |-> FALSE]

JStr(s) == [ty |-> "string", v |-> s]
JNum == [ty |-> "number", v |-> "1"]

ContentNameA == Content(12, JsonObject([k \in {"name"} |-> JStr("a")]))
ContentNameB ==
    Content(24, JsonObject([k \in {"name", "extra"} |->
                              IF k = "name" THEN JStr("b") ELSE JStr("x")]))
ContentBroken == Content(3, JsonError)

Event(kind, pubkey, content, created_at, tags) ==
    [kind |-> kind, pubkey |-> pubkey, content |-> content,
     created_at |-> created_at, tags |-> tags]

RecordA1 == Event(0, PkA, ContentNameA, 100,
                  << <<"role", "bad!">>, <<"role", " admin ">> >>)
RecordA2 == Event(0, PkA, ContentNameB, 200, << >>)
\* as old as RecordA2, of the same author, with other metadata
RecordA3 == Event(0, PkA, ContentNameA, 200,
                  << <<"x", "admin">>, <<"role", "   ">>, <<"role", "admin">>,
                     <<"role", "staff">> >>)
\* newer than every other record of its author, and not decodable
RecordBroken == Event(0, PkA, ContentBroken, 300, << <<"role">> >>)
RecordB1 == Event(0, PkB, ContentNameB, 100, << <<"role", "">> >>)
RecordFollows == Event(3, PkA, Content(0, JsonError), 100,
                       << <<"p", PkB, "wss://r1", "bob">>, <<"e", "x">>, <<"p", PkA>> >>)

\* what query(filter) may deliver to next
Packets ==
    {[event |-> RecordA1], [event |-> RecordA2], [event |-> RecordA3],
     [event |-> RecordBroken], [event |-> RecordB1], [event |-> RecordFollows],
     [event |-> Undefined]}

\* the packets of relays that hold few records
FewPackets ==
    {[event |-> RecordA1], [event |-> RecordA2], [event |-> RecordBroken],
     [event |-> RecordFollows], [event |-> Undefined]}

\* what publish(event) may deliver to next
Responses == {[type |-> "OK"], [type |-> "NOTICE"]}

----------------------------------------------------------------------------
\* Profile codec and tag codec.

WhitelistKeys == {"name", "display_name", "about", "picture", "website"}

Thrown == [t |-> "thrown"]

\* TooLong as it would be if content of the greatest size were refused
TooLongFrom(content) == content.len >= maxProfileContentSize

\* `content.length > this.maxProfileContentSize`
TooLong(content) == content.len > maxProfileContentSize

\* Whitelisted as it would be if every string-typed field were copied
EveryString(fields) ==
    [k \in {f \in DOMAIN fields : fields[f].ty = "string"} |-> fields[k].v]

\* the five `if (typeof parsed.<key> === 'string') metadata.<key> = ...`
Whitelisted(fields) ==
    [k \in {f \in DOMAIN fields \cap WhitelistKeys : fields[f].ty = "string"}
       |-> fields[k].v]

\* parseProfileMetadata: Null, the metadata, or Thrown when content.length
\* is read of a missing content (outside the try block)
parseProfileMetadata(content) ==
    IF ~content.str THEN Thrown
    ELSE IF TooLong(content) THEN Null
    ELSE LET parsed == content.json
         IN  IF parsed.t = "syntaxError" THEN Null
             ELSE IF parsed.t \in {"null", "number", "string", "boolean"} THEN Null
             ELSE IF parsed.t = "array" THEN Metadata(EmptyMap)
             ELSE Metadata(Whitelisted(parsed.fields))

RECURSIVE MembersLength(_, _)
\* the length of the members of JSON.stringify(metadata), commas included
MembersLength(metadata, keys) ==
    IF keys = {} THEN 0
    ELSE LET k == CHOOSE x \in keys : TRUE
             rest == keys \ {k}
         IN  StrLength(k) + EscapedLength(metadata[k]) + 5
               + (IF rest = {} THEN 0 ELSE 1) + MembersLength(metadata, rest)

\* JSON.stringify(metadata): the text and what it parses to
stringify(metadata) ==
    Content(2 + MembersLength(metadata, DOMAIN metadata),
            JsonObject([k \in DOMAIN metadata |-> JStr(metadata[k])]))

\* a tag element as JavaScript reads it: a missing or empty element is falsy
TagAt(tag, i) == IF i <= Len(tag) THEN tag[i] ELSE ""

\* extractRole as it would be if only the first role tag were looked at
extractRoleNoScan(tags) ==
    LET roles == SelectSeq(tags, LAMBDA tag : TagAt(tag, 1) = "role")
    IN  IF roles # << >> /\ TagAt(roles[1], 2) # ""
                        /\ isValidRoleTag(Trim(TagAt(roles[1], 2)))
        THEN Str(Trim(TagAt(roles[1], 2)))
        ELSE Null

RECURSIVE extractRole(_)
\* the loop of fetchProfileRoleTag over the tags: the first valid role, or Null
extractRole(tags) ==
    IF tags = << >> THEN Null
    ELSE LET tag == Head(tags)
             candidate == Trim(TagAt(tag, 2))
         IN  IF /\ TagAt(tag, 1) = "role"
                /\ TagAt(tag, 2) # ""
                /\ isValidRoleTag(candidate)
             THEN Str(candidate)
             ELSE extractRole(Tail(tags))

RECURSIVE decodeFollowList(_)
\* the loop of fetchFollowList over the tags
decodeFollowList(tags) ==
    IF tags = << >> THEN << >>
    ELSE LET tag == Head(tags)
         IN  IF TagAt(tag, 1) = "p" /\ TagAt(tag, 2) # ""
             THEN << [pubkey |-> TagAt(tag, 2), relay |-> TagAt(tag, 3),
                      petname |-> TagAt(tag, 4)] >> \o decodeFollowList(Tail(tags))
             ELSE decodeFollowList(Tail(tags))

----------------------------------------------------------------------------
\* One call in flight.

Reads == {"fetchProfile", "fetchProfileRoleTag", "fetchFollowList",
          "fetchMultipleProfiles", "queryProfiles"}
Publishes == {"publishEvent", "publishFollowList"}
Kinds == Reads \cup Publishes

Pending == [st |-> "pending", val |-> Undefined]
NoThrow == [t |-> "none"]
ErrType == Error("TypeError: content.length")

IdleCall ==
    [kind |-> "none",
     pc |-> "idle",            \* idle, rateLimit, signing, executor, subscribed, returned
     pubkeys |-> << >>,        \* the argument of fetchMultipleProfiles and queryProfiles
     limit |-> 0,              \* the parameter `limit` of queryProfiles
     given |-> Undefined,      \* the arguments queryProfiles was called with
     filter |-> Undefined,     \* the argument of the store's query
     followList |-> << >>,     \* the argument of publishFollowList
     tags |-> << >>,           \* the tags of the event publishFollowList has built
     built |-> Undefined,      \* the event publishFollowList has passed to signEvent
     signed |-> Undefined,     \* the event signEvent has resolved with
     event |-> Undefined,      \* the argument of publishEvent
     published |-> Undefined,  \* the argument of the store's publish
     promise |-> Pending,      \* the promise the caller holds
     resumeAt |-> 0,           \* when the timer of enforceRateLimit fires
     profiles |-> EmptyMap,    \* the Map `profiles` of the two batch reads
     assigned |-> FALSE,       \* `subscription` has been initialised
     unsubscribed |-> FALSE,   \* subscription.unsubscribe() has been called
     source |-> "none",        \* none, live, completed, errored, unsubscribed, aborted
     emitted |-> 0,            \* callbacks delivered by the source
     timer |-> "none",         \* the deadline timer: none, armed, fired
     deadline |-> 0,           \* when the deadline timer fires
     thrown |-> NoThrow,       \* what the callback that just ran threw
     \* what has happened to the call, kept for the properties
     invokedStore |-> FALSE,   \* an event store was attached when the call was made
     settledBy |-> "none",     \* guard, executor, next, complete, error, timeout, sign
     suspensions |-> 0,        \* timers and collaborators the call has awaited
     rateLimited |-> FALSE,    \* the call has passed through enforceRateLimit
     readAt |-> 0,             \* the last-run time enforceRateLimit has read
     admittedAt |-> 0,         \* when enforceRateLimit recorded the time and returned
     netCalls |-> 0,           \* calls of query or publish
     signCalls |-> 0,          \* calls of signEvent
     gotOK |-> FALSE,          \* the source delivered an OK response
     gotError |-> FALSE]       \* the source signalled an error

Settled(o) == o.promise.st # "pending"

\* resolve(v) and reject(v) of a promise: only the first one has an effect
Settle(o, st, v, by) ==
    IF Settled(o) THEN o
    ELSE [o EXCEPT !.promise = [st |-> st, val |-> v],
                   !.settledBy = by]

\* subscription.unsubscribe(): the source delivers nothing afterwards
Unsubscribe(o) ==
    [o EXCEPT !.unsubscribed = TRUE,
              !.source = IF @ = "live" THEN "unsubscribed" ELSE @]

\* `subscription.unsubscribe(); resolve(v)` inside a callback: while
\* subscribe() has not returned, `subscription` is uninitialised and reading
\* it throws before anything else happens
UnsubscribeAndSettle(o, st, v, by) ==
    IF o.assigned THEN Settle(Unsubscribe(o), st, v, by)
    ELSE [o EXCEPT !.thrown = ErrReference]

\* the value a caller reads from a settled promise
Result(o) ==
    IF o.promise.val = ProfilesRef THEN MapOf(o.profiles) ELSE o.promise.val

\* the copy loop of queryProfiles: pubkey -> metadata
MetadataOf(profiles) == [k \in DOMAIN profiles |-> profiles[k].metadata]

\* the value a read settles with when it has nothing
EmptyResult(kind) ==
    CASE kind \in {"fetchProfile", "fetchProfileRoleTag"} -> Null
      [] kind = "fetchFollowList" -> List(<< >>)
      [] kind \in {"fetchMultipleProfiles", "queryProfiles"} -> MapOf(EmptyMap)
      [] OTHER -> Bool(FALSE)

\* the value passed to resolve on completion, error and timeout
Collected(o) ==
    CASE o.kind = "fetchMultipleProfiles" -> ProfilesRef
      [] o.kind = "queryProfiles" -> MapOf(MetadataOf(o.profiles))
      [] OTHER -> EmptyResult(o.kind)

TimeoutMs(kind) ==
    CASE kind = "fetchProfile" -> fetchProfileTimeoutMs
      [] kind = "fetchProfileRoleTag" -> fetchRoleTagTimeoutMs
      [] kind = "fetchFollowList" -> fetchFollowListTimeoutMs
      [] kind = "fetchMultipleProfiles" -> fetchMultipleTimeoutMs
      [] kind = "queryProfiles" -> queryProfilesTimeoutMs
      [] OTHER -> publishTimeoutMs

\* RateLimitAction as it would be if the reads shared one action
RateLimitActionShared(kind) ==
    IF kind \in Reads THEN "fetch-profile" ELSE "publish"

RateLimitAction(kind) ==
    CASE kind = "fetchProfile" -> "fetch-profile"
      [] kind = "fetchProfileRoleTag" -> "fetch-role-tag"
      [] kind = "fetchFollowList" -> "fetch-follow-list"
      [] kind = "fetchMultipleProfiles" -> "fetch-multiple-profiles"
      [] kind = "queryProfiles" -> "query-profiles"
      [] OTHER -> "publish"

MinIntervalMs(kind) ==
    IF kind \in Reads THEN minProfileQueryIntervalMs ELSE minPublishIntervalMs

Actions ==
    {"fetch-profile", "fetch-role-tag", "fetch-follow-list",
     "fetch-multiple-profiles", "query-profiles", "publish"}

\* WaitMs as it would be if the rate limiter never waited
WaitMsNone(minIntervalMs, t, lastAt) == 0

\* WaitMs as it would be if a call that comes too soon waited a whole interval
WaitMsWhole(minIntervalMs, t, lastAt) ==
    IF t - lastAt < minIntervalMs THEN minIntervalMs ELSE 0

\* `const waitMs = minIntervalMs - (now - lastAt)`
WaitMs(minIntervalMs, t, lastAt) == minIntervalMs - (t - lastAt)

----------------------------------------------------------------------------
\* The callbacks given to subscribe().

\* IsKind as it would be if the kind of a record were not looked at
IsKindAny(item, kind) == item.event # Undefined

\* `packet?.event && packet.event.kind === kind`
IsKind(item, kind) == item.event # Undefined /\ item.event.kind = kind

\* MapSet as it would be if an entry, once made, were kept
MapSetIfAbsent(profiles, key, value) ==
    [k \in DOMAIN profiles \cup {key} |->
       IF k \in DOMAIN profiles THEN profiles[k] ELSE value]

\* profiles.set(key, value)
MapSet(profiles, key, value) ==
    [k \in DOMAIN profiles \cup {key} |-> IF k = key THEN value ELSE profiles[k]]

\* IsNewer as it would be if a record as old as the one retained replaced it
IsNewerOrEqual(profiles, pubkey, timestamp) ==
    pubkey \notin DOMAIN profiles \/ timestamp >= profiles[pubkey].timestamp

\* `!existing || timestamp > existing.timestamp`
IsNewer(profiles, pubkey, timestamp) ==
    pubkey \notin DOMAIN profiles \/ timestamp > profiles[pubkey].timestamp

\* next
onNext(o, item) ==
    CASE o.kind = "fetchProfile" ->
           IF IsKind(item, 0)
           THEN LET metadata == parseProfileMetadata(item.event.content)
                IN  IF metadata = Thrown THEN [o EXCEPT !.thrown = ErrType]
                    ELSE IF metadata # Null
                    THEN UnsubscribeAndSettle(o, "resolved", metadata, "next")
                    ELSE o
           ELSE o
      [] o.kind = "fetchProfileRoleTag" ->
           IF IsKind(item, 0)
           THEN UnsubscribeAndSettle(o, "resolved", extractRole(item.event.tags), "next")
           ELSE o
      [] o.kind = "fetchFollowList" ->
           IF IsKind(item, 3)
           THEN UnsubscribeAndSettle(o, "resolved",
                                     List(decodeFollowList(item.event.tags)), "next")
           ELSE o
      [] o.kind = "fetchMultipleProfiles" ->
           IF IsKind(item, 0) /\ item.event.pubkey # ""
           THEN LET metadata == parseProfileMetadata(item.event.content)
                    pubkey == item.event.pubkey
                IN  IF metadata = Thrown THEN [o EXCEPT !.thrown = ErrType]
                    ELSE IF metadata # Null
                    THEN [o EXCEPT !.profiles = MapSet(@, pubkey, metadata.v)]
                    ELSE o
           ELSE o
      [] o.kind = "queryProfiles" ->
           IF IsKind(item, 0) /\ item.event.pubkey # ""
           THEN LET metadata == parseProfileMetadata(item.event.content)
                    pubkey == item.event.pubkey
                    timestamp == item.event.created_at
                IN  IF metadata = Thrown THEN [o EXCEPT !.thrown = ErrType]
                    ELSE IF metadata # Null /\ IsNewer(o.profiles, pubkey, timestamp)
                    THEN [o EXCEPT !.profiles =
                            MapSet(@, pubkey,
                                   [metadata |-> metadata.v, timestamp |-> timestamp])]
                    ELSE o
           ELSE o
      [] OTHER ->
           IF item.type = "OK"
           THEN UnsubscribeAndSettle([o EXCEPT !.gotOK = TRUE], "resolved", Bool(TRUE), "next")
           ELSE o

\* complete: publishEvent passes no complete callback
onComplete(o) ==
    IF o.kind \in Reads
    THEN UnsubscribeAndSettle(o, "resolved", Collected(o), "complete")
    ELSE o

\* onError as it would be if a read whose source fails asked the source again
onErrorRetries(o, error) ==
    IF o.kind \in Reads
    THEN [o EXCEPT !.source = "live", !.netCalls = @ + 1]
    ELSE UnsubscribeAndSettle(o, "rejected", error, "error")

\* error
onError(o, error) ==
    IF o.kind \in Reads
    THEN UnsubscribeAndSettle(o, "resolved", Collected(o), "error")
    ELSE UnsubscribeAndSettle(o, "rejected", error, "error")

\* onTimeout as it would be if a deadline always gave the empty value
onTimeoutEmpty(o) ==
    Settle(Unsubscribe(o), "resolved", EmptyResult(o.kind), "timeout")

\* onTimeout as it would be without the call of unsubscribe
onTimeoutKeepsSource(o) ==
    Settle(o, "resolved", Collected(o), "timeout")

\* the callback given to setTimeout
onTimeout(o) ==
    Settle(Unsubscribe(o), "resolved", Collected(o), "timeout")

----------------------------------------------------------------------------
\* The event store and the source behind query() and publish().

NoStore ==
    [attached |-> FALSE, query |-> FALSE, publish |-> FALSE, rethrows |-> FALSE,
     setRelays |-> FALSE]

\* The stores initialize() may be given. A store has query and publish or
\* lacks them, and has a setRelays method or not; its streams either report
\* an exception thrown by a callback to the host (the call of subscribe()
\* returns normally) or let it propagate out of the call that delivered the
\* item.
Stores ==
    {[attached |-> TRUE, query |-> TRUE, publish |-> TRUE, rethrows |-> FALSE,
      setRelays |-> TRUE],
     [attached |-> TRUE, query |-> TRUE, publish |-> TRUE, rethrows |-> TRUE,
      setRelays |-> FALSE],
     [attached |-> TRUE, query |-> FALSE, publish |-> FALSE, rethrows |-> FALSE,
      setRelays |-> FALSE]}

\* the relay set of a store that was given none
NoRelaySet == [set |-> FALSE, urls |-> << >>]
\* eventStore.setRelays(urls)
RelaySet(urls) == [set |-> TRUE, urls |-> urls]

\* The probe on the source: switched off it logs nothing; switched on it
\* logs every callback the source has run for the call in flight.
ProbeOff == [on |-> FALSE, items |-> << >>]
ProbeOn == [on |-> TRUE, items |-> << >>]
Log(probe, ds) == IF probe.on THEN [probe EXCEPT !.items = @ \o ds] ELSE probe

Items(kind) == IF kind \in Reads THEN held ELSE Responses

\* one callback of the source: next(item), complete() or error(e)
Deliveries(kind) ==
    {[type |-> "next", item |-> i] : i \in Items(kind)}
      \cup {[type |-> "complete"], [type |-> "error"]}

\* What a source may deliver inside subscribe(): items, then at most one
\* completion or error.
SyncDeliveries(kind) ==
    LET nexts == {[type |-> "next", item |-> i] : i \in Items(kind)}
        ends == {[type |-> "complete"], [type |-> "error"]}
    IN  UNION {[1..m -> nexts] : m \in 0..MaxEmit}
          \cup {Append(s, e) : s \in UNION {[1..m -> nexts] : m \in 0..(MaxEmit - 1)},
                               e \in ends}

\* the source runs one callback
Handle(o, d) ==
    LET o1 == [o EXCEPT !.thrown = NoThrow, !.emitted = @ + 1]
    IN  CASE d.type = "next" -> onNext(o1, d.item)
          [] d.type = "complete" -> onComplete([o1 EXCEPT !.source = "completed"])
          [] OTHER -> onError([o1 EXCEPT !.source = "errored", !.gotError = TRUE],
                              ErrTransport)

RECURSIVE Deliver(_, _, _)
\* the callbacks the source runs before subscribe() returns; with a
\* rethrowing stream the first exception ends the call of subscribe()
Deliver(o, ds, rethrows) ==
    IF ds = << >> THEN o
    ELSE LET o1 == Handle(o, Head(ds))
         IN  IF o1.thrown # NoThrow /\ rethrows THEN o1
             ELSE Deliver([o1 EXCEPT !.thrown = NoThrow], Tail(ds), rethrows)

\* SetTimeout as it would be if no deadline timer were started
SetTimeoutNever(o, ms) == o

\* setTimeout(callback, ms)
SetTimeout(o, ms) == [o EXCEPT !.timer = "armed", !.deadline = now + ms]

\* `const subscription = source.subscribe({...}); setTimeout(...)` in the
\* executor of the promise: an exception leaving subscribe() rejects the
\* promise and nothing after it runs
Subscribe(o, ds) ==
    LET o1 == Deliver([o EXCEPT !.source = "live", !.netCalls = @ + 1], ds,
                      eventStore.rethrows)
    IN  IF o1.thrown # NoThrow
        THEN [Settle(o1, "rejected", o1.thrown, "executor")
                EXCEPT !.pc = "returned", !.source = "aborted", !.thrown = NoThrow]
        ELSE [SetTimeout(o1, TimeoutMs(o.kind))
                EXCEPT !.assigned = TRUE, !.pc = "subscribed"]

----------------------------------------------------------------------------
\* Arguments of the calls.

DefaultRelays == << "wss://relay.damus.io" >>

\* validateRelayUrls as it would be if it kept the valid URLs of a list
validateRelayUrlsPartial(urls) ==
    [ok |-> TRUE, urls |-> SelectSeq(urls, isValidRelayUrl)]

\* validateRelayUrls: the list, or a throw when a URL of it is invalid
validateRelayUrls(urls) ==
    IF urls = << >> THEN [ok |-> TRUE, urls |-> << >>]
    ELSE LET validUrls == SelectSeq(urls, isValidRelayUrl)
         IN  IF Len(validUrls) # Len(urls) THEN [ok |-> FALSE, urls |-> << >>]
             ELSE [ok |-> TRUE, urls |-> validUrls]

\* the lists setRelays is given while reads and publishes are in flight
RelayLists == {<< >>, DefaultRelays}

\* the lists setRelays is given where the relay set itself is looked at
AllRelayLists ==
    RelayLists \cup {<< "ws://r2", "wss://r1" >>, << "ws://r2", "http://x" >>,
                     << "relay" >>}

PubkeyLists == {<< >>, << PkA >>}

Entry(pubkey, relay, petname) == [pubkey |-> pubkey, relay |-> relay, petname |-> petname]

FollowLists ==
    {<< >>,
     << Entry(PkA, "wss://r1", "alice") >>,
     << Entry(PkB, "", ""), Entry(PkA, "wss://r1", "") >>,
     << Entry(PkA, "", "alice") >>,
     << Entry(PkB, "", ""), Entry(PkShort, "", "") >>,
     << Entry(PkA, "http://x", "") >>}

\* the tag publishFollowList builds of one entry
encodeEntry(entry) ==
    << "p", entry.pubkey >>
      \o (IF entry.relay # "" THEN << entry.relay >> ELSE << >>)
      \o (IF entry.petname # "" THEN << entry.petname >> ELSE << >>)

\* followList.map(...) in publishFollowList: the tags of the event
encodeFollowList(followList) ==
    [i \in 1..Len(followList) |-> encodeEntry(followList[i])]

\* the event publishFollowList builds of the tags; created_at is left out
FollowListEvent(tags) == [kind |-> 3, content |-> "", tags |-> tags, sig |-> ""]

\* the event signEvent resolves with: the event it was given, signed
Signed(event) == [event EXCEPT !.sig = "sig"]

\* the signed event a caller passes to publishEvent
GivenEvent == [kind |-> 1, content |-> "note", tags |-> << >>, sig |-> "sig"]

\* Handed as it would be if publishFollowList published the event it built
HandedUnsigned(built, signed) == built

\* `return await this.publishEvent(signedEvent)`: the argument of publishEvent
Handed(built, signed) == signed

\* validateFollowList as it would be if only the first entry were checked
validateFollowListHead(followList) ==
    IF followList = << >> THEN Null
    ELSE IF ~isValidPubkey(followList[1].pubkey) THEN ErrInvalidPubkey
    ELSE IF followList[1].relay # "" /\ ~isValidRelayUrl(followList[1].relay)
    THEN ErrInvalidRelay
    ELSE Null

RECURSIVE validateFollowList(_)
\* the checks of followList.map in publishFollowList: the first error, or Null
validateFollowList(followList) ==
    IF followList = << >> THEN Null
    ELSE LET entry == Head(followList)
         IN  IF ~isValidPubkey(entry.pubkey) THEN ErrInvalidPubkey
             ELSE IF entry.relay # "" /\ ~isValidRelayUrl(entry.relay) THEN ErrInvalidRelay
             ELSE validateFollowList(Tail(followList))

----------------------------------------------------------------------------
\* The operations.

\* no page component is mounted
NoPage == [page |-> "none"]

\* new RelayService(): the service as constructed, no call made yet
Constructed ==
    /\ now = ConstructedAt
    /\ eventStore = NoStore
    /\ relayUrls = DefaultRelays
    /\ lastActionAt = [a \in Actions |-> 0]
    /\ op = [c \in Callers |-> IdleCall]
    /\ callers = {"c1"}
    /\ calls = 0
    /\ storeRelays = NoRelaySet
    /\ raised = NoThrow
    /\ client = NoPage

Init == Constructed /\ held = FewPackets /\ seen = ProbeOff

\* initialize(eventStore), called once: the store is attached and, if it
\* has a setRelays method, given the relay set
Initialize(store) ==
    /\ eventStore = NoStore
    /\ eventStore' = store
    /\ storeRelays' = IF store.setRelays THEN RelaySet(relayUrls) ELSE storeRelays
    /\ UNCHANGED <<now, relayUrls, lastActionAt, op, callers, calls, raised, held, seen,
                   client>>

\* setRelays(urls): validateRelayUrls throws before anything is assigned, or
\* the list is assigned and passed on to a store that has setRelays
SetRelays(urls) ==
    /\ LET valid == validateRelayUrls(urls)
       IN  IF ~valid.ok
           THEN /\ raised' = ErrInvalidRelayUrl
                /\ UNCHANGED <<relayUrls, storeRelays>>
           ELSE /\ raised' = NoThrow
                /\ relayUrls' = valid.urls
                /\ storeRelays' = IF eventStore.attached /\ eventStore.setRelays
                                  THEN RelaySet(valid.urls)
                                  ELSE storeRelays
    /\ UNCHANGED <<now, eventStore, lastActionAt, op, callers, calls, held, seen, client>>

\* `pubkeys: string[] = []` and `limit = 100`: an argument that is omitted
\* takes the default
PubkeysOf(pubkeys) == IF pubkeys = Undefined THEN << >> ELSE pubkeys.v
LimitOf(limit) == IF limit = Undefined THEN defaultLimit ELSE limit.v

\* FilterOf as it would be if queryProfiles always set the authors
FilterOfWithAuthors(o) ==
    CASE o.kind \in {"fetchProfile", "fetchProfileRoleTag"} ->
           [kinds |-> << 0 >>, authors |-> o.pubkeys, limit |-> 1]
      [] o.kind = "fetchFollowList" ->
           [kinds |-> << 3 >>, authors |-> o.pubkeys, limit |-> 1]
      [] o.kind = "fetchMultipleProfiles" ->
           [kinds |-> << 0 >>, authors |-> o.pubkeys]
      [] OTHER ->
           [kinds |-> << 0 >>, limit |-> o.limit, authors |-> o.pubkeys]

\* the filter a read passes to the store's query
FilterOf(o) ==
    CASE o.kind \in {"fetchProfile", "fetchProfileRoleTag"} ->
           [kinds |-> << 0 >>, authors |-> o.pubkeys, limit |-> 1]
      [] o.kind = "fetchFollowList" ->
           [kinds |-> << 3 >>, authors |-> o.pubkeys, limit |-> 1]
      [] o.kind = "fetchMultipleProfiles" ->
           [kinds |-> << 0 >>, authors |-> o.pubkeys]
      [] OTHER ->
           IF Len(o.pubkeys) > 0
           THEN [kinds |-> << 0 >>, limit |-> o.limit, authors |-> o.pubkeys]
           ELSE [kinds |-> << 0 >>, limit |-> o.limit]

\* getRelays as it would be if it returned the array of the service itself
getRelaysShared == [urls |-> relayUrls, alias |-> TRUE]

\* getRelays(): `return [...this.relayUrls]`, a new array with the same URLs
getRelays == [urls |-> relayUrls, alias |-> FALSE]

\* a caller calls getRelays() and keeps the array
GetRelays ==
    /\ client' = [page |-> "caller", relays |-> getRelays.urls, alias |-> getRelays.alias]
    /\ UNCHANGED <<now, eventStore, relayUrls, lastActionAt, op, callers, calls,
                   storeRelays, raised, held, seen>>

\* The caller changes the array it got from getRelays() in place, to any
\* list; the array of the service changes with it only if it is the same array.
MutateReturned(urls) ==
    /\ client.page = "caller"
    /\ client.relays # urls
    /\ client' = [client EXCEPT !.relays = urls]
    /\ relayUrls' = IF client.alias THEN urls ELSE relayUrls
    /\ UNCHANGED <<now, eventStore, lastActionAt, op, callers, calls, storeRelays,
                   raised, held, seen>>

\* Stamp as it would be if enforceRateLimit left the last-run time as it was
StampKept(lastAt, t) == lastAt

\* `this.lastActionAt.set(action, Date.now())`: the last-run time recorded
Stamp(lastAt, t) == t

\* IsEmptyBatch as it would be without the shortcut of fetchMultipleProfiles
IsEmptyBatchNever(o) == FALSE

\* `pubkeys.length === 0` in fetchMultipleProfiles
IsEmptyBatch(o) == o.kind = "fetchMultipleProfiles" /\ o.pubkeys = << >>

\* The head of every read and of publishEvent, up to its first suspension:
\* the check of eventStore, the shortcut of fetchMultipleProfiles, then
\* enforceRateLimit, which sets a timer or records the time at once.
Enter(c, o) ==
    LET action == RateLimitAction(o.kind)
        lastAt == lastActionAt[action]
        waitMs == WaitMs(MinIntervalMs(o.kind), now, lastAt)
    IN  IF ~eventStore.attached
        THEN /\ op' = [op EXCEPT ![c] =
                         [Settle(o, "rejected", ErrNotInitialized, "guard")
                            EXCEPT !.pc = "returned"]]
             /\ UNCHANGED lastActionAt
        ELSE IF IsEmptyBatch(o)
        THEN /\ op' = [op EXCEPT ![c] =
                         [Settle(o, "resolved", MapOf(EmptyMap), "guard")
                            EXCEPT !.pc = "returned"]]
             /\ UNCHANGED lastActionAt
        ELSE IF waitMs > 0
        THEN /\ op' = [op EXCEPT ![c] =
                         [o EXCEPT !.pc = "rateLimit", !.resumeAt = now + waitMs,
                                   !.suspensions = @ + 1, !.readAt = lastAt]]
             /\ UNCHANGED lastActionAt
        ELSE /\ op' = [op EXCEPT ![c] = [o EXCEPT !.pc = "executor", !.rateLimited = TRUE,
                                                   !.readAt = lastAt, !.admittedAt = now]]
             /\ lastActionAt' = [lastActionAt EXCEPT ![action] = Stamp(@, now)]

\* a read or publishEvent is called and runs up to its first suspension
Start(c, kind, pubkeys) ==
    /\ op[c].pc = "idle"
    /\ kind \in {"fetchMultipleProfiles", "queryProfiles"} \/ pubkeys = << PkA >>
    /\ calls' = calls + 1
    /\ Enter(c, [IdleCall EXCEPT !.kind = kind, !.pubkeys = pubkeys,
                                 !.limit = LimitOf(Undefined),
                                 !.given = [pubkeys |-> List(pubkeys), limit |-> Undefined],
                                 !.event = IF kind = "publishEvent" THEN GivenEvent
                                           ELSE Undefined,
                                 !.invokedStore = eventStore.attached])
    /\ seen' = [seen EXCEPT !.items = << >>]
    /\ UNCHANGED <<now, eventStore, relayUrls, callers, storeRelays, raised, held,
                   client>>

\* a caller invokes a read or publishEvent
Invoke(c, kind, pubkeys) ==
    /\ calls < MaxCalls
    /\ now <= LastStart
    /\ Start(c, kind, pubkeys)

\* a caller invokes a read where two callers use the service: for two calls
\* to wait at once there is one more call, the one that has run before them
Call(c, kind) ==
    /\ calls <= MaxCalls
    /\ now <= LastStart
    /\ Start(c, kind, << PkA >>)

\* a caller invokes queryProfiles, with or without pubkeys and limit
QueryProfiles(c, pubkeys, limit) ==
    /\ op[c].pc = "idle"
    /\ calls < MaxCalls
    /\ now <= LastStart
    /\ calls' = calls + 1
    /\ Enter(c, [IdleCall EXCEPT !.kind = "queryProfiles",
                                 !.pubkeys = PubkeysOf(pubkeys),
                                 !.limit = LimitOf(limit),
                                 !.given = [pubkeys |-> pubkeys, limit |-> limit],
                                 !.invokedStore = eventStore.attached])
    /\ seen' = [seen EXCEPT !.items = << >>]
    /\ UNCHANGED <<now, eventStore, relayUrls, callers, storeRelays, raised, held,
                   client>>

\* publishFollowList up to `await signEvent(event)`: the tags are built and
\* checked, then signEvent is called
FollowListCall(followList) ==
    LET o == [IdleCall EXCEPT !.kind = "publishFollowList",
                              !.followList = followList,
                              !.invokedStore = eventStore.attached]
        invalid == validateFollowList(followList)
    IN  IF invalid # Null
        THEN [Settle(o, "rejected", invalid, "guard") EXCEPT !.pc = "returned"]
        ELSE [o EXCEPT !.pc = "signing", !.signCalls = @ + 1,
                       !.suspensions = @ + 1,
                       !.tags = encodeFollowList(followList),
                       !.built = FollowListEvent(encodeFollowList(followList))]

\* a caller invokes publishFollowList: the tags are built and checked, then
\* signEvent is called and awaited
PublishFollowList(c, followList) ==
    /\ op[c].pc = "idle"
    /\ calls < MaxCalls
    /\ now <= LastStart
    /\ calls' = calls + 1
    /\ op' = [op EXCEPT ![c] = FollowListCall(followList)]
    /\ seen' = [seen EXCEPT !.items = << >>]
    /\ UNCHANGED <<now, eventStore, relayUrls, lastActionAt, callers, storeRelays, raised, held,
                   client>>

\* signEvent resolves: publishFollowList calls publishEvent
SignResolves(c) ==
    /\ op[c].pc = "signing"
    /\ LET signed == Signed(op[c].built)
       IN  Enter(c, [op[c] EXCEPT !.signed = signed,
                                  !.event = Handed(op[c].built, signed)])
    /\ UNCHANGED <<now, eventStore, relayUrls, callers, calls, storeRelays, raised, held, seen,
                   client>>

\* signEvent rejects
SignRejects(c) ==
    /\ op[c].pc = "signing"
    /\ op' = [op EXCEPT ![c] =
                [Settle(@, "rejected", ErrSign, "sign") EXCEPT !.pc = "returned"]]
    /\ UNCHANGED <<now, eventStore, relayUrls, lastActionAt, callers, calls,
                   storeRelays, raised, held, seen, client>>

\* RateLimitResumes as it would be if a call that wakes too soon after
\* another one's run waited again
RateLimitResumesRechecks(c) ==
    /\ op[c].pc = "rateLimit"
    /\ now >= op[c].resumeAt
    /\ LET action == RateLimitAction(op[c].kind)
           waitMs == WaitMs(MinIntervalMs(op[c].kind), now, lastActionAt[action])
       IN  IF waitMs > 0
           THEN /\ op' = [op EXCEPT ![c] = [@ EXCEPT !.resumeAt = now + waitMs]]
                /\ UNCHANGED lastActionAt
           ELSE /\ lastActionAt' = [lastActionAt EXCEPT ![action] = now]
                /\ op' = [op EXCEPT ![c] = [@ EXCEPT !.pc = "executor",
                                                     !.rateLimited = TRUE,
                                                     !.admittedAt = now]]
    /\ UNCHANGED <<now, eventStore, relayUrls, callers, calls, storeRelays, raised, held, seen,
                   client>>

\* the timer of enforceRateLimit fires: the time is recorded and the call goes on
RateLimitResumes(c) ==
    /\ op[c].pc = "rateLimit"
    /\ now >= op[c].resumeAt
    /\ lastActionAt' = [lastActionAt EXCEPT ![RateLimitAction(op[c].kind)] = Stamp(@, now)]
    /\ op' = [op EXCEPT ![c] = [@ EXCEPT !.pc = "executor", !.rateLimited = TRUE,
                                         !.admittedAt = now]]
    /\ UNCHANGED <<now, eventStore, relayUrls, callers, calls, storeRelays, raised, held, seen,
                   client>>

\* PublishExecutor as it would be if the relay set were checked after the
\* call of publish
PublishExecutorLateCheck(o, ds) ==
    IF ~eventStore.publish
    THEN [Settle(o, "rejected", ErrNoPublish, "executor") EXCEPT !.pc = "returned"]
    ELSE IF relayUrls = << >>
    THEN [Settle(Subscribe(o, ds), "rejected", ErrNoRelays, "executor")
            EXCEPT !.pc = "returned"]
    ELSE Subscribe([o EXCEPT !.published = o.event], ds)

\* QueryExecutor as it would be if a store without query were treated as
\* no store at all
QueryExecutorRejects(o, ds) ==
    IF ~eventStore.query
    THEN [Settle(o, "rejected", ErrNotInitialized, "executor") EXCEPT !.pc = "returned"]
    ELSE Subscribe(o, ds)

\* the executor of publishEvent's promise: the checks of the relay set and
\* of the store's publish method, then subscribe() and the deadline timer
PublishExecutor(o, ds) ==
    IF relayUrls = << >>
    THEN [Settle(o, "rejected", ErrNoRelays, "executor") EXCEPT !.pc = "returned"]
    ELSE IF ~eventStore.publish
    THEN [Settle(o, "rejected", ErrNoPublish, "executor") EXCEPT !.pc = "returned"]
    ELSE Subscribe([o EXCEPT !.published = o.event], ds)

\* the executor of a read's promise: the check of the store's query method,
\* then subscribe() and the deadline timer
QueryExecutor(o, ds) ==
    IF ~eventStore.query
    THEN [Settle(o, "resolved", EmptyResult(o.kind), "executor") EXCEPT !.pc = "returned"]
    ELSE Subscribe([o EXCEPT !.filter = FilterOf(o)], ds)

\* the executor of `new Promise(...)` runs, with what the source delivers
\* inside subscribe()
Executor(c) ==
    /\ op[c].pc = "executor"
    /\ \E ds \in SyncDeliveries(op[c].kind) :
          /\ op' = [op EXCEPT ![c] = IF @.kind \in Publishes
                                     THEN PublishExecutor(@, ds)
                                     ELSE QueryExecutor(@, ds)]
          /\ seen' = Log(seen, SubSeq(ds, 1, op'[c].emitted))
    /\ UNCHANGED <<now, eventStore, relayUrls, lastActionAt, callers, calls,
                   storeRelays, raised, held, client>>

\* the source delivers an item, completes or errors after subscribe() has
\* returned; what a callback throws here never reaches the promise
SourceDelivers(c) ==
    /\ op[c].pc = "subscribed"
    /\ op[c].source = "live"
    /\ op[c].emitted < MaxEmit
    /\ \E d \in Deliveries(op[c].kind) :
          /\ op' = [op EXCEPT ![c] = [Handle(@, d) EXCEPT !.thrown = NoThrow]]
          /\ seen' = Log(seen, << d >>)
    /\ UNCHANGED <<now, eventStore, relayUrls, lastActionAt, callers, calls,
                   storeRelays, raised, held, client>>

\* Timeout as it would be if the timer could fire before it is due
TimeoutAnyTime(c) ==
    /\ op[c].timer = "armed"
    /\ op' = [op EXCEPT ![c] = [onTimeout(@) EXCEPT !.timer = "fired"]]
    /\ UNCHANGED <<now, eventStore, relayUrls, lastActionAt, callers, calls,
                   storeRelays, raised, held, seen, client>>

\* Timeout as it would be if the calls in flight shared one deadline timer
TimeoutShared(c) ==
    /\ op[c].timer = "armed"
    /\ now >= op[c].deadline
    /\ op' = [d \in Callers |->
                IF op[d].timer = "armed"
                THEN [onTimeout(op[d]) EXCEPT !.timer = "fired"]
                ELSE op[d]]
    /\ UNCHANGED <<now, eventStore, relayUrls, lastActionAt, callers, calls,
                   storeRelays, raised, held, seen, client>>

\* the deadline timer fires
Timeout(c) ==
    /\ op[c].timer = "armed"
    /\ now >= op[c].deadline
    /\ op' = [op EXCEPT ![c] = [onTimeout(@) EXCEPT !.timer = "fired"]]
    /\ UNCHANGED <<now, eventStore, relayUrls, lastActionAt, callers, calls,
                   storeRelays, raised, held, seen, client>>

\* The caller has read the value its promise settled with and drops the
\* promise; a deadline timer still armed fires later on a settled promise
\* that nobody holds.
Return(c) ==
    /\ Settled(op[c])
    /\ op' = [op EXCEPT ![c] = IdleCall]
    /\ UNCHANGED <<now, eventStore, relayUrls, lastActionAt, callers, calls,
                   storeRelays, raised, held, seen, client>>

\* the timers that have not fired yet
Timers ==
    {op[c].resumeAt : c \in {x \in callers : op[x].pc = "rateLimit"}}
      \cup {op[c].deadline : c \in {x \in callers : op[x].timer = "armed"}}

\* Time passes until the next timer is due: a timer fires when it is due.
Advance ==
    /\ \E t \in Timers :
          /\ t > now
          /\ \A u \in Timers : t <= u
          /\ now' = t
    /\ UNCHANGED <<eventStore, relayUrls, lastActionAt, op, callers, calls,
                   storeRelays, raised, held, seen, client>>

Next ==
    \/ \E store \in Stores : Initialize(store)
    \/ \E urls \in RelayLists : SetRelays(urls)
    \/ \E c \in callers, kind \in Reads \cup {"publishEvent"}, pubkeys \in PubkeyLists :
          Invoke(c, kind, pubkeys)
    \/ \E c \in callers, followList \in FollowLists : PublishFollowList(c, followList)
    \/ \E c \in callers : SignResolves(c)
    \/ \E c \in callers : SignRejects(c)
    \/ \E c \in callers : RateLimitResumes(c)
    \/ \E c \in callers : Executor(c)
    \/ \E c \in callers : SourceDelivers(c)
    \/ \E c \in callers : Timeout(c)
    \/ \E c \in callers : Return(c)
    \/ Advance

Spec == Init /\ [][Next]_vars

\* The relay set: every list setRelays may be given, and the publishes that
\* use the relay set.
RelayNext ==
    \/ \E store \in Stores : Initialize(store)
    \/ \E urls \in AllRelayLists : SetRelays(urls)
    \/ \E c \in callers : Invoke(c, "publishEvent", << PkA >>)
    \/ \E c \in callers : RateLimitResumes(c)
    \/ \E c \in callers : Executor(c)
    \/ \E c \in callers : SourceDelivers(c)
    \/ \E c \in callers : Timeout(c)
    \/ \E c \in callers : Return(c)
    \/ Advance

RelaySpec == Init /\ [][RelayNext]_vars

\* The reads alone, with every callback of the source logged.
InitRead == Constructed /\ held = Packets /\ seen = ProbeOn

ReadNext ==
    \/ \E store \in Stores : Initialize(store)
    \/ \E c \in callers, kind \in Reads, pubkeys \in PubkeyLists :
          Invoke(c, kind, pubkeys)
    \/ \E c \in callers : RateLimitResumes(c)
    \/ \E c \in callers : Executor(c)
    \/ \E c \in callers : SourceDelivers(c)
    \/ \E c \in callers : Timeout(c)
    \/ \E c \in callers : Return(c)
    \/ Advance

ReadSpec == InitRead /\ [][ReadNext]_vars

\* The rate limiter under two callers of the single profile reads: the calls
\* are made at different times, so that a call may come any part of an
\* interval after the last run, and the relays hold no record.
Tick == minProfileQueryIntervalMs \div 2
FirstStart == LastStart - 2 * Tick

InitLimiter ==
    /\ now = FirstStart
    /\ eventStore = NoStore
    /\ relayUrls = DefaultRelays
    /\ lastActionAt = [a \in Actions |-> 0]
    /\ op = [c \in Callers |-> IdleCall]
    /\ callers = Callers
    /\ calls = 0
    /\ storeRelays = NoRelaySet
    /\ raised = NoThrow
    /\ held = {}
    /\ seen = ProbeOff
    /\ client = NoPage

\* time passes between two calls, no further than the next timer
Pass ==
    /\ now < LastStart
    /\ \A t \in Timers : now + Tick <= t
    /\ now' = now + Tick
    /\ UNCHANGED <<eventStore, relayUrls, lastActionAt, op, callers, calls,
                   storeRelays, raised, held, seen, client>>

LimiterKinds == {"fetchProfile", "fetchProfileRoleTag"}

\* the stores whose streams report what a callback throws to the host
QuietStores == {store \in Stores : store.query /\ ~store.rethrows}

LimiterNext ==
    \/ \E store \in QuietStores : Initialize(store)
    \/ \E c \in callers, kind \in LimiterKinds : Call(c, kind)
    \/ \E c \in callers : RateLimitResumes(c)
    \/ \E c \in callers : Executor(c)
    \/ \E c \in callers : SourceDelivers(c)
    \/ \E c \in callers : Timeout(c)
    \/ \E c \in callers : Return(c)
    \/ Advance
    \/ Pass

LimiterSpec == InitLimiter /\ [][LimiterNext]_vars

\* Two callers with reads in flight at once: fetchProfile and
\* fetchMultipleProfiles, with one record held by the relays.
InitPair ==
    /\ now = ConstructedAt
    /\ eventStore = NoStore
    /\ relayUrls = DefaultRelays
    /\ lastActionAt = [a \in Actions |-> 0]
    /\ op = [c \in Callers |-> IdleCall]
    /\ callers = Callers
    /\ calls = 0
    /\ storeRelays = NoRelaySet
    /\ raised = NoThrow
    /\ held = {[event |-> RecordA1]}
    /\ seen = ProbeOff
    /\ client = NoPage

PairKinds == {"fetchProfile", "fetchMultipleProfiles"}

PairNext ==
    \/ \E store \in Stores : Initialize(store)
    \/ \E c \in callers, kind \in PairKinds : Invoke(c, kind, << PkA >>)
    \/ \E c \in callers : RateLimitResumes(c)
    \/ \E c \in callers : Executor(c)
    \/ \E c \in callers : SourceDelivers(c)
    \/ \E c \in callers : Timeout(c)
    \/ \E c \in callers : Return(c)
    \/ Advance

PairSpec == InitPair /\ [][PairNext]_vars

\* queryProfiles alone, called as the membership page calls it and with
\* either argument omitted.
QueryPubkeys == {Undefined, List(<< >>), List(<< PkA >>), List(<< PkB, PkA >>)}
QueryLimits == {Undefined, Num(50), Num(1)}

QueryNext ==
    \/ \E store \in Stores : Initialize(store)
    \/ \E c \in callers, pubkeys \in QueryPubkeys, limit \in QueryLimits :
          QueryProfiles(c, pubkeys, limit)
    \/ \E c \in callers : RateLimitResumes(c)
    \/ \E c \in callers : Executor(c)
    \/ \E c \in callers : SourceDelivers(c)
    \/ \E c \in callers : Timeout(c)
    \/ \E c \in callers : Return(c)
    \/ Advance

QuerySpec == Init /\ [][QueryNext]_vars

\* One caller whose calls follow one another at different times: the single
\* profile reads and publishEvent, each call made after the one before it
\* has returned.
InitSequential ==
    /\ now = FirstStart
    /\ eventStore = NoStore
    /\ relayUrls = DefaultRelays
    /\ lastActionAt = [a \in Actions |-> 0]
    /\ op = [c \in Callers |-> IdleCall]
    /\ callers = {"c1"}
    /\ calls = 0
    /\ storeRelays = NoRelaySet
    /\ raised = NoThrow
    /\ held = {}
    /\ seen = ProbeOff
    /\ client = NoPage

SequentialKinds == LimiterKinds \cup {"publishEvent"}

SequentialNext ==
    \/ \E store \in Stores : Initialize(store)
    \/ \E c \in callers, kind \in SequentialKinds : Call(c, kind)
    \/ \E c \in callers : RateLimitResumes(c)
    \/ \E c \in callers : Executor(c)
    \/ \E c \in callers : SourceDelivers(c)
    \/ \E c \in callers : Timeout(c)
    \/ \E c \in callers : Return(c)
    \/ Advance
    \/ Pass

SequentialSpec == InitSequential /\ [][SequentialNext]_vars

\* The relay set from the construction on: `new RelayService(config)` with no
\* relayUrls or with any list, where a constructor that throws leaves no
\* service behind, then initialize, setRelays with any list, getRelays and
\* changes of the arrays getRelays returned.
Configs == {Undefined} \cup {List(urls) : urls \in AllRelayLists}

\* `config.relayUrls ?? this.defaultRelays`
ConfiguredRelays(config) == IF config = Undefined THEN DefaultRelays ELSE config.v

InitRelaySet ==
    /\ now = ConstructedAt
    /\ eventStore = NoStore
    /\ \E config \in Configs :
          LET valid == validateRelayUrls(ConfiguredRelays(config))
          IN  valid.ok /\ relayUrls = valid.urls
    /\ lastActionAt = [a \in Actions |-> 0]
    /\ op = [c \in Callers |-> IdleCall]
    /\ callers = {"c1"}
    /\ calls = 0
    /\ storeRelays = NoRelaySet
    /\ raised = NoThrow
    /\ held = FewPackets
    /\ seen = ProbeOff
    /\ client = NoPage

RelaySetNext ==
    \/ \E store \in Stores : Initialize(store)
    \/ \E urls \in AllRelayLists : SetRelays(urls)
    \/ GetRelays
    \/ \E urls \in AllRelayLists : MutateReturned(urls)

RelaySetSpec == InitRelaySet /\ [][RelaySetNext]_vars

----------------------------------------------------------------------------
\* ProfilePage.handleSubmit: the page signs a kind-0 and a kind-3 event and
\* publishes them one after the other through the service, as caller c1.

\* the kind-3 tags the author has published before, as the relays hold them
PriorTags ==
    IF [event |-> RecordFollows] \in held THEN RecordFollows.tags ELSE << >>

\* followsTags as it would be if the page added its tag to the tags the
\* author has published before
followsTagsMerged(publicKey, urls, name) ==
    PriorTags \o << << "p", publicKey >> >>

\* the tags of `follows`: one p tag of the author's own pubkey, with the
\* first relay of the service and the name of the form where there are any
followsTags(publicKey, urls, name) ==
    << << "p", publicKey >>
         \o (IF urls # << >> THEN << urls[1] >> ELSE << >>)
         \o (IF name # "" THEN << name >> ELSE << >>) >>

\* the page as mounted for an author
ProfilePageOf(publicKey) ==
    [page |-> "profile",
     pc |-> "idle",            \* idle, signProfile, signFollows, publishProfile,
                               \* publishFollows
     publicKey |-> publicKey,
     isSaving |-> FALSE,
     saveMessage |-> "",
     profileEvent |-> Undefined,
     follows |-> Undefined,
     signedProfile |-> Undefined,
     signedFollows |-> Undefined,
     sent |-> << >>,           \* the events publishEvent was called with
     outcomes |-> << >>]       \* how those calls have settled

\* the catch and finally blocks of handleSubmit
SubmitFailed(page) ==
    [page EXCEPT !.pc = "idle", !.isSaving = FALSE,
                 !.saveMessage = "Failed to save profile. Please try again."]

\* relayService.publishEvent(event), called by the page
PagePublishes(event) ==
    /\ calls' = calls + 1
    /\ Enter("c1", [IdleCall EXCEPT !.kind = "publishEvent", !.event = event,
                                    !.invokedStore = eventStore.attached])

\* The form is submitted: handleSubmit runs up to `await
\* authService.signEvent(profileEvent)`. The role suggestion, awaited before
\* the events are built, gives the profile event a role tag or none.
HandleSubmit(name, tags) ==
    /\ client.page = "profile"
    /\ client.pc = "idle"
    /\ calls < MaxCalls
    /\ LET page == [ProfilePageOf(client.publicKey) EXCEPT !.isSaving = TRUE]
       IN  client' =
             IF ~isValidPubkey(client.publicKey) THEN SubmitFailed(page)
             ELSE [page EXCEPT
                     !.pc = "signProfile",
                     !.profileEvent = [kind |-> 0, content |-> "profile",
                                       tags |-> tags, sig |-> ""],
                     !.follows = [kind |-> 3, content |-> "",
                                  tags |-> followsTags(client.publicKey,
                                                       getRelays.urls, name),
                                  sig |-> ""]]
    /\ UNCHANGED <<now, eventStore, relayUrls, lastActionAt, op, callers, calls,
                   storeRelays, raised, held, seen>>

\* signEvent(profileEvent) resolves: signEvent(follows) is called
SubmitProfileSigned ==
    /\ client.page = "profile"
    /\ client.pc = "signProfile"
    /\ client' = [client EXCEPT !.pc = "signFollows",
                                !.signedProfile = Signed(client.profileEvent)]
    /\ UNCHANGED <<now, eventStore, relayUrls, lastActionAt, op, callers, calls,
                   storeRelays, raised, held, seen>>

\* signEvent(follows) resolves: publishEvent(signedProfile) is called
SubmitFollowsSigned ==
    /\ client.page = "profile"
    /\ client.pc = "signFollows"
    /\ client' = [client EXCEPT !.pc = "publishProfile",
                                !.signedFollows = Signed(client.follows),
                                !.sent = Append(@, client.signedProfile)]
    /\ PagePublishes(client.signedProfile)
    /\ UNCHANGED <<now, eventStore, relayUrls, callers, storeRelays, raised, held, seen>>

\* one of the two calls of signEvent rejects
SubmitSignRejects ==
    /\ client.page = "profile"
    /\ client.pc \in {"signProfile", "signFollows"}
    /\ client' = SubmitFailed(client)
    /\ UNCHANGED <<now, eventStore, relayUrls, lastActionAt, op, callers, calls,
                   storeRelays, raised, held, seen>>

\* SubmitProfileSettled as it would be if the page published the kind-3
\* event whatever became of the kind-0 event
SubmitProfileSettledAnyway ==
    /\ client.page = "profile"
    /\ client.pc = "publishProfile"
    /\ Settled(op["c1"])
    /\ client' = [client EXCEPT !.pc = "publishFollows",
                                !.outcomes = Append(@, op["c1"].promise.st),
                                !.sent = Append(@, client.signedFollows)]
    /\ PagePublishes(client.signedFollows)
    /\ UNCHANGED <<now, eventStore, relayUrls, callers, storeRelays, raised, held, seen>>

\* publishEvent(signedProfile) has settled: a rejection ends handleSubmit in
\* its catch block, otherwise publishEvent(signedFollows) is called
SubmitProfileSettled ==
    /\ client.page = "profile"
    /\ client.pc = "publishProfile"
    /\ Settled(op["c1"])
    /\ IF op["c1"].promise.st = "rejected"
       THEN /\ client' = [SubmitFailed(client)
                            EXCEPT !.outcomes = Append(@, "rejected")]
            /\ op' = [op EXCEPT !["c1"] = IdleCall]
            /\ UNCHANGED <<lastActionAt, calls>>
       ELSE /\ client' = [client EXCEPT !.pc = "publishFollows",
                                        !.outcomes = Append(@, "resolved"),
                                        !.sent = Append(@, client.signedFollows)]
            /\ PagePublishes(client.signedFollows)
    /\ UNCHANGED <<now, eventStore, relayUrls, callers, storeRelays, raised, held, seen>>

\* publishEvent(signedFollows) has settled: handleSubmit ends
SubmitFollowsSettled ==
    /\ client.page = "profile"
    /\ client.pc = "publishFollows"
    /\ Settled(op["c1"])
    /\ client' =
         IF op["c1"].promise.st = "rejected"
         THEN [SubmitFailed(client) EXCEPT !.outcomes = Append(@, "rejected")]
         ELSE [client EXCEPT !.pc = "idle", !.isSaving = FALSE,
                             !.saveMessage = "Profile saved successfully!",
                             !.outcomes = Append(@, "resolved")]
    /\ op' = [op EXCEPT !["c1"] = IdleCall]
    /\ UNCHANGED <<now, eventStore, relayUrls, lastActionAt, callers, calls,
                   storeRelays, raised, held, seen>>

\* the authors the page is mounted for: a valid pubkey and an invalid one
PageAuthors == {PkA, PkShort}

InitSubmit ==
    /\ now = ConstructedAt
    /\ eventStore = NoStore
    /\ relayUrls = DefaultRelays
    /\ lastActionAt = [a \in Actions |-> 0]
    /\ op = [c \in Callers |-> IdleCall]
    /\ callers = {"c1"}
    /\ calls = 0
    /\ storeRelays = NoRelaySet
    /\ raised = NoThrow
    /\ held \in {FewPackets, FewPackets \ {[event |-> RecordFollows]}}
    /\ seen = ProbeOff
    /\ \E publicKey \in PageAuthors : client = ProfilePageOf(publicKey)

FormNames == {"", "alice"}
RoleTags == {<< >>, << << "role", "admin" >> >>}

SubmitNext ==
    \/ \E store \in Stores : Initialize(store)
    \/ \E urls \in RelayLists : SetRelays(urls)
    \/ \E name \in FormNames, tags \in RoleTags : HandleSubmit(name, tags)
    \/ SubmitProfileSigned
    \/ SubmitFollowsSigned
    \/ SubmitSignRejects
    \/ SubmitProfileSettled
    \/ SubmitFollowsSettled
    \/ \E c \in callers : RateLimitResumes(c)
    \/ \E c \in callers : Executor(c)
    \/ \E c \in callers : SourceDelivers(c)
    \/ \E c \in callers : Timeout(c)
    \/ Advance

SubmitSpec == InitSubmit /\ [][SubmitNext]_vars

----------------------------------------------------------------------------
\* MembershipPage: handleAddMember and handleRemoveMember publish the new
\* list through publishFollowList, as caller c1, and then set `members`.

MembershipPageOf(members) ==
    [page |-> "membership",
     pc |-> "idle",            \* idle, saving
     members |-> members,
     isSaving |-> FALSE,
     saveMessage |-> "",
     handler |-> "none",       \* the handler that ran last: add, remove
     newMembers |-> << >>]     \* `newMembers` of that handler

\* members.some((m) => m.pubkey === pubkey)
IsMember(members, pubkey) ==
    \E i \in 1..Len(members) : members[i].pubkey = pubkey

\* members.filter((m) => m.pubkey !== pubkey)
WithoutMember(members, pubkey) ==
    SelectSeq(members, LAMBDA m : m.pubkey # pubkey)

\* a handler sets isSaving and calls publishFollowList with the new list
PageSaves(handler, newMembers) ==
    /\ client' = [client EXCEPT !.pc = "saving", !.isSaving = TRUE,
                                !.handler = handler, !.newMembers = newMembers]
    /\ calls' = calls + 1
    /\ op' = [op EXCEPT !["c1"] = FollowListCall(newMembers)]

\* handleAddMember(pubkey), up to `await relayService.publishFollowList(...)`
HandleAddMember(pubkey) ==
    /\ client.page = "membership"
    /\ client.pc = "idle"
    /\ calls < MaxCalls
    /\ IF IsMember(client.members, pubkey)
       THEN /\ client' = [client EXCEPT !.saveMessage = "User is already a member"]
            /\ UNCHANGED <<op, calls>>
       ELSE PageSaves("add", Append(client.members, Entry(pubkey, "", "")))
    /\ UNCHANGED <<now, eventStore, relayUrls, lastActionAt, callers, storeRelays,
                   raised, held, seen>>

\* handleRemoveMember(pubkey), up to `await relayService.publishFollowList(...)`
HandleRemoveMember(pubkey) ==
    /\ client.page = "membership"
    /\ client.pc = "idle"
    /\ calls < MaxCalls
    /\ PageSaves("remove", WithoutMember(client.members, pubkey))
    /\ UNCHANGED <<now, eventStore, relayUrls, lastActionAt, callers, storeRelays,
                   raised, held, seen>>

\* the message the handlers set when the publish has settled
SaveMessage(handler, st) ==
    CASE st = "rejected" /\ handler = "add" -> "Failed to add member. Please try again."
      [] st = "rejected" -> "Failed to remove member. Please try again."
      [] handler = "add" -> "Member added successfully!"
      [] OTHER -> "Member removed successfully!"

\* MemberPublishSettled as it would be if the page set the members whatever
\* became of the publish
MemberPublishSettledOptimistic ==
    /\ client.page = "membership"
    /\ client.pc = "saving"
    /\ Settled(op["c1"])
    /\ client' = [client EXCEPT !.pc = "idle", !.isSaving = FALSE,
                                !.members = client.newMembers,
                                !.saveMessage = SaveMessage(client.handler,
                                                            op["c1"].promise.st)]
    /\ op' = [op EXCEPT !["c1"] = IdleCall]
    /\ UNCHANGED <<now, eventStore, relayUrls, lastActionAt, callers, calls,
                   storeRelays, raised, held, seen>>

\* publishFollowList has settled: setMembers(newMembers) unless it rejected,
\* and setIsSaving(false) in the finally block
MemberPublishSettled ==
    /\ client.page = "membership"
    /\ client.pc = "saving"
    /\ Settled(op["c1"])
    /\ client' =
         IF op["c1"].promise.st = "rejected"
         THEN [client EXCEPT !.pc = "idle", !.isSaving = FALSE,
                             !.saveMessage = SaveMessage(client.handler, "rejected")]
         ELSE [client EXCEPT !.pc = "idle", !.isSaving = FALSE,
                             !.members = client.newMembers,
                             !.saveMessage = SaveMessage(client.handler, "resolved")]
    /\ op' = [op EXCEPT !["c1"] = IdleCall]
    /\ UNCHANGED <<now, eventStore, relayUrls, lastActionAt, callers, calls,
                   storeRelays, raised, held, seen>>

\* the pubkeys of the profiles a search has listed: the relays may hold
\* records under any string
ListedPubkeys == {PkA, PkB, PkShort}

InitMembers ==
    /\ now = ConstructedAt
    /\ eventStore = NoStore
    /\ relayUrls = DefaultRelays
    /\ lastActionAt = [a \in Actions |-> 0]
    /\ op = [c \in Callers |-> IdleCall]
    /\ callers = {"c1"}
    /\ calls = 0
    /\ storeRelays = NoRelaySet
    /\ raised = NoThrow
    /\ held = {}
    /\ seen = ProbeOff
    /\ \E members \in FollowLists : client = MembershipPageOf(members)

MemberNext ==
    \/ \E store \in Stores : Initialize(store)
    \/ \E pubkey \in ListedPubkeys : HandleAddMember(pubkey)
    \/ \E pubkey \in ListedPubkeys : HandleRemoveMember(pubkey)
    \/ \E c \in callers : SignResolves(c)
    \/ \E c \in callers : SignRejects(c)
    \/ \E c \in callers : RateLimitResumes(c)
    \/ \E c \in callers : Executor(c)
    \/ \E c \in callers : SourceDelivers(c)
    \/ \E c \in callers : Timeout(c)
    \/ MemberPublishSettled
    \/ Advance

MemberSpec == InitMembers /\ [][MemberNext]_vars

----------------------------------------------------------------------------
\* RegistrationFlow.handleRegister. The authentication service and
\* setAuthenticated are collaborators the component is given: their calls
\* are logged in the order in which they are made.

RegistrationFlowMounted ==
    [page |-> "registration",
     pc |-> "idle",            \* idle, createPasskey, createNostrKey: what is awaited
     step |-> "info",          \* info, creating, success
     isLoading |-> FALSE,
     error |-> "",             \* "" stands for null
     username |-> "",
     attempts |-> 0,           \* calls of handleRegister
     credentialId |-> Undefined,
     keyInfo |-> Undefined,
     log |-> << >>,            \* the collaborator calls of the running attempt
     authenticated |-> << >>]  \* the arguments of all calls of setAuthenticated

Called(name, arg) == [call |-> name, arg |-> arg]

\* `username.trim() || undefined`
PasskeyUsername(username) ==
    IF Trim(username) = "" THEN Undefined ELSE Str(Trim(username))

\* the catch block of handleRegister
RegisterFailed(page) ==
    [page EXCEPT !.pc = "idle", !.step = "info", !.isLoading = FALSE,
                 !.error = "Registration failed. Please try again."]

\* the name field changes; it is shown in step info and disabled while loading
SetUsername(username) ==
    /\ client.page = "registration"
    /\ client.step = "info"
    /\ ~client.isLoading
    /\ client.username # username
    /\ client' = [client EXCEPT !.username = username]
    /\ UNCHANGED <<now, eventStore, relayUrls, lastActionAt, op, callers, calls,
                   storeRelays, raised, held, seen>>

\* The button is pressed; it is shown in step info and disabled while
\* loading. handleRegister runs up to `await authService.createPasskey(...)`,
\* or into its catch block when clearStoredKeyInfo throws.
HandleRegister(clearThrows) ==
    /\ client.page = "registration"
    /\ client.step = "info"
    /\ ~client.isLoading
    /\ client.attempts < MaxCalls
    /\ LET page == [client EXCEPT !.isLoading = TRUE, !.error = "",
                                  !.step = "creating", !.attempts = @ + 1,
                                  !.credentialId = Undefined, !.keyInfo = Undefined,
                                  !.log = << Called("clearStoredKeyInfo", Undefined) >>]
       IN  client' =
             IF clearThrows THEN RegisterFailed(page)
             ELSE [page EXCEPT !.pc = "createPasskey",
                               !.log = Append(@, Called("createPasskey",
                                                        PasskeyUsername(client.username)))]
    /\ UNCHANGED <<now, eventStore, relayUrls, lastActionAt, op, callers, calls,
                   storeRelays, raised, held, seen>>

\* createPasskey resolves: createNostrKey(credentialId) is called
CreatePasskeyResolves(credentialId) ==
    /\ client.page = "registration"
    /\ client.pc = "createPasskey"
    /\ client' = [client EXCEPT !.pc = "createNostrKey",
                                !.credentialId = credentialId,
                                !.log = Append(@, Called("createNostrKey", credentialId))]
    /\ UNCHANGED <<now, eventStore, relayUrls, lastActionAt, op, callers, calls,
                   storeRelays, raised, held, seen>>

\* createPasskey rejects
CreatePasskeyRejects ==
    /\ client.page = "registration"
    /\ client.pc = "createPasskey"
    /\ client' = RegisterFailed(client)
    /\ UNCHANGED <<now, eventStore, relayUrls, lastActionAt, op, callers, calls,
                   storeRelays, raised, held, seen>>

\* createNostrKey resolves: setCurrentKeyInfo(keyInfo), setAuthenticated(keyInfo)
\* and setStep('success'), or the catch block when setCurrentKeyInfo throws
CreateNostrKeyResolves(keyInfo, setThrows) ==
    /\ client.page = "registration"
    /\ client.pc = "createNostrKey"
    /\ LET page == [client EXCEPT !.keyInfo = keyInfo,
                                  !.log = Append(@, Called("setCurrentKeyInfo", keyInfo))]
       IN  client' =
             IF setThrows THEN RegisterFailed(page)
             ELSE [page EXCEPT !.pc = "idle", !.step = "success",
                               !.log = Append(@, Called("setAuthenticated", keyInfo)),
                               !.authenticated = Append(@, keyInfo)]
    /\ UNCHANGED <<now, eventStore, relayUrls, lastActionAt, op, callers, calls,
                   storeRelays, raised, held, seen>>

\* CreateNostrKeyRejects as it would be if the failure were ignored
CreateNostrKeyRejectsIgnored ==
    /\ client.page = "registration"
    /\ client.pc = "createNostrKey"
    /\ client' = [client EXCEPT !.pc = "idle", !.step = "success",
                                !.log = @ \o << Called("setCurrentKeyInfo", Undefined),
                                                Called("setAuthenticated", Undefined) >>,
                                !.authenticated = Append(@, Undefined)]
    /\ UNCHANGED <<now, eventStore, relayUrls, lastActionAt, op, callers, calls,
                   storeRelays, raised, held, seen>>

\* createNostrKey rejects
CreateNostrKeyRejects ==
    /\ client.page = "registration"
    /\ client.pc = "createNostrKey"
    /\ client' = RegisterFailed(client)
    /\ UNCHANGED <<now, eventStore, relayUrls, lastActionAt, op, callers, calls,
                   storeRelays, raised, held, seen>>

InitRegister ==
    /\ now = ConstructedAt
    /\ eventStore = NoStore
    /\ relayUrls = DefaultRelays
    /\ lastActionAt = [a \in Actions |-> 0]
    /\ op = [c \in Callers |-> IdleCall]
    /\ callers = {"c1"}
    /\ calls = 0
    /\ storeRelays = NoRelaySet
    /\ raised = NoThrow
    /\ held = {}
    /\ seen = ProbeOff
    /\ client = RegistrationFlowMounted

Usernames == {"", "alice", "   "}
CredentialIds == {[t |-> "credential", v |-> "id1"], [t |-> "credential", v |-> "id2"]}
KeyInfos == {[t |-> "keyInfo", v |-> "key1"], [t |-> "keyInfo", v |-> "key2"]}

RegisterNext ==
    \/ \E username \in Usernames : SetUsername(username)
    \/ \E clearThrows \in BOOLEAN : HandleRegister(clearThrows)
    \/ \E credentialId \in CredentialIds : CreatePasskeyResolves(credentialId)
    \/ CreatePasskeyRejects
    \/ \E keyInfo \in KeyInfos, setThrows \in BOOLEAN :
          CreateNostrKeyResolves(keyInfo, setThrows)
    \/ CreateNostrKeyRejects

RegisterSpec == InitRegister /\ [][RegisterNext]_vars

\* The check of a public key: publishFollowList with one entry, of any of
\* the strings.
PubkeyStrings == {PkA, PkB, PkShort, PkNotHex, PkLong, PkUpper, ""}

PubkeyFollowLists == {<< Entry(pubkey, "", "") >> : pubkey \in PubkeyStrings}

PubkeyNext ==
    \/ \E store \in Stores : Initialize(store)
    \/ \E c \in callers, followList \in PubkeyFollowLists :
          PublishFollowList(c, followList)
    \/ \E c \in callers : SignResolves(c)
    \/ \E c \in callers : SignRejects(c)
    \/ \E c \in callers : RateLimitResumes(c)
    \/ \E c \in callers : Executor(c)
    \/ \E c \in callers : SourceDelivers(c)
    \/ \E c \in callers : Timeout(c)
    \/ \E c \in callers : Return(c)
    \/ Advance

PubkeySpec == Init /\ [][PubkeyNext]_vars

\* The decoder: the relays hold one kind-0 record, with any of the contents.
ParsedObjects ==
    {JsonObject(fields) :
       fields \in UNION {[keys -> {JStr("a"), JNum}] :
                           keys \in SUBSET {"name", "website", "extra"}}}
      \cup {JsonObject([k \in {"name"} |-> JStr(Lone)])}

ParsedValues ==
    {JsonError, JsonNull, JsonNumber, JsonString, JsonBoolean, JsonArray}
      \cup ParsedObjects

\* the lengths of the texts: a text can be made longer with white space
ContentLengths ==
    {maxProfileContentSize \div 2, maxProfileContentSize, maxProfileContentSize + 1}

Contents ==
    {Content(len, json) : len \in ContentLengths, json \in ParsedValues}
      \cup {NoContent}

InitCodec ==
    /\ Constructed
    /\ held \in {{[event |-> Event(0, PkA, content, 100, << >>)]} : content \in Contents}
    /\ seen = ProbeOn

CodecKinds == {"fetchProfile", "fetchMultipleProfiles"}

CodecNext ==
    \/ \E store \in Stores : Initialize(store)
    \/ \E c \in callers, kind \in CodecKinds : Invoke(c, kind, << PkA >>)
    \/ \E c \in callers : RateLimitResumes(c)
    \/ \E c \in callers : Executor(c)
    \/ \E c \in callers : SourceDelivers(c)
    \/ \E c \in callers : Timeout(c)
    \/ \E c \in callers : Return(c)
    \/ Advance

CodecSpec == InitCodec /\ [][CodecNext]_vars

\* The event loop runs every timer that is due and every continuation that
\* is ready, and time passes.
FairSpec ==
    /\ Spec
    /\ WF_vars(Advance)
    /\ \A c \in Callers : WF_vars(RateLimitResumes(c))
    /\ \A c \in Callers : WF_vars(Executor(c))
    /\ \A c \in Callers : WF_vars(Timeout(c))

----------------------------------------------------------------------------
\* Properties.

\* the call of c has called query or publish and subscribed to what it returned
HasSubscribed(c) == op[c].netCalls > 0

\* the metadata a batch read has accumulated, by author
Accumulated(o) ==
    [k \in DOMAIN o.profiles |->
       IF o.kind = "queryProfiles" THEN o.profiles[k].metadata ELSE o.profiles[k]]

\* C1: a promise settles at most once. Once the promise of a call is settled,
\* no later callback of the source and no firing of the deadline timer
\* changes its outcome or the value the caller reads, the contents of a
\* returned map included.
SettlesAtMostOnce ==
    [][\A c \in Callers :
         (Settled(op[c]) /\ op'[c].kind # "none")
           => /\ op'[c].promise.st = op[c].promise.st
              /\ Result(op'[c]) = Result(op[c])]_vars

\* C1: a batch read has settled on completion or error with a map that is
\* not empty, and its deadline timer has fired afterwards.
SettledThenTimerFired ==
    \E c \in Callers :
       /\ op[c].kind = "fetchMultipleProfiles"
       /\ op[c].settledBy \in {"complete", "error"}
       /\ op[c].profiles # EmptyMap
       /\ op[c].timer = "fired"

\* C2: whenever a call that has subscribed to the source is settled,
\* unsubscribe has been called on its subscription, also when the source
\* delivers inside subscribe().
UnsubscribedWhenSettled ==
    \A c \in Callers :
       (HasSubscribed(c) /\ Settled(op[c])) => op[c].unsubscribed

\* C3: on an initialized engine every read and every publishEvent settles in
\* the end, whatever the source does: from some time on no such call is left
\* unsettled (a call stays in flight until it has settled). And a call whose
\* source has delivered nothing is settled by nothing but its own deadline
\* timer.
EventuallySettles ==
    /\ <>[](\A c \in Callers :
               (op[c].kind \in Reads \cup {"publishEvent"} /\ op[c].invokedStore)
                 => Settled(op[c]))
    /\ [][\A c \in Callers :
            (/\ op[c].pc = "subscribed" /\ ~Settled(op[c])
             /\ Settled(op'[c]) /\ op'[c].emitted = 0)
              => (op'[c].settledBy = "timeout" /\ now >= op[c].deadline)]_vars

\* C3: a call whose source delivered nothing has been settled by its timer.
SilentSourceTimedOut ==
    \E c \in Callers :
       /\ op[c].kind \in Reads \cup {"publishEvent"}
       /\ op[c].emitted = 0
       /\ op[c].settledBy = "timeout"

\* C4: a read on an initialized engine never settles with a rejection (the
\* claim says so of the engine without a store too).
ReadsNeverReject ==
    \A c \in Callers :
       (op[c].kind \in Reads /\ op[c].invokedStore) => op[c].promise.st # "rejected"

ReadErrorGivesEmpty ==
    \A c \in Callers :
       (/\ op[c].kind \in {"fetchProfile", "fetchProfileRoleTag", "fetchFollowList"}
        /\ op[c].gotError /\ op[c].settledBy \in {"error", "executor"})
         => (op[c].promise.st = "resolved" /\ Result(op[c]) = EmptyResult(op[c].kind))

\* C7: a publishEvent that has called publish resolves true only after an OK,
\* and rejects only when the source has signalled an error, with that error.
PublishRejectsOnlyOnTransportError ==
    \A c \in Callers :
       (op[c].kind = "publishEvent" /\ HasSubscribed(c))
         => /\ Result(op[c]) = Bool(TRUE) => op[c].gotOK
            /\ op[c].promise.st = "rejected"
                 => (op[c].gotError /\ op[c].promise.val = ErrTransport)

NotInitializedRejectsAtOnce ==
    \A c \in Callers :
       (op[c].kind \in Kinds /\ ~op[c].invokedStore)
         => /\ op[c].promise.st = "rejected"
            /\ op[c].suspensions = 0
            /\ ~op[c].rateLimited
            /\ op[c].netCalls = 0
            /\ op[c].signCalls = 0

\* the executor of c has returned without subscribing, for want of a method
MethodMissing(c) ==
    /\ op[c].pc = "returned"
    /\ op[c].rateLimited
    /\ IF op[c].kind \in Reads THEN ~eventStore.query ELSE ~eventStore.publish

\* C10 as stated: a call whose store lacks the method it needs is rejected,
\* without waiting.
MissingMethodRejects ==
    \A c \in Callers :
       MethodMissing(c) => (op[c].promise.st = "rejected" /\ op[c].suspensions = 0)

\* C10 as amended: a call whose store lacks the method it needs never
\* subscribes and starts no deadline timer; a read resolves with its empty
\* value, a publish rejects (for the missing method, or for the empty relay
\* set, which is checked first).
MissingMethodEndsWithoutSource ==
    \A c \in Callers :
       MethodMissing(c)
         => /\ op[c].netCalls = 0
            /\ op[c].timer = "none"
            /\ IF op[c].kind \in Reads
               THEN op[c].promise = [st |-> "resolved", val |-> EmptyResult(op[c].kind)]
               ELSE /\ op[c].promise.st = "rejected"
                    /\ op[c].promise.val \in {ErrNoPublish, ErrNoRelays}

\* C10: a read has resolved with its empty value on a store without query.
ReadWithoutQueryResolved ==
    \E c \in Callers :
       /\ MethodMissing(c)
       /\ op[c].kind \in Reads
       /\ op[c].promise.st = "resolved"

\* C11: setRelays(urls) is all or nothing. With a URL in urls that is no
\* relay URL the call throws and leaves the relay set of the service and the
\* relay set of the event store as they were; otherwise the relay set
\* becomes urls, in the same order, and a store that has setRelays is given
\* the same list.
SetRelaysAllOrNothing ==
    [][\A urls \in AllRelayLists :
         SetRelays(urls)
           => IF \E i \in 1..Len(urls) : ~isValidRelayUrl(urls[i])
              THEN /\ raised' = ErrInvalidRelayUrl
                   /\ relayUrls' = relayUrls
                   /\ storeRelays' = storeRelays
              ELSE /\ raised' = NoThrow
                   /\ relayUrls' = urls
                   /\ eventStore.setRelays => storeRelays' = RelaySet(urls)]_vars

\* C11: a list of two relays has been set and passed to the store, and a
\* later setRelays has thrown and left both as they were.
SetRelaysRefused ==
    /\ raised = ErrInvalidRelayUrl
    /\ relayUrls = << "ws://r2", "wss://r1" >>
    /\ storeRelays = RelaySet(relayUrls)

\* an entry publishFollowList accepts
EntryAccepted(entry) ==
    /\ isValidPubkey(entry.pubkey)
    /\ entry.relay = "" \/ isValidRelayUrl(entry.relay)

\* the follow list of c has a malformed entry, at whatever place
Malformed(c) ==
    /\ op[c].kind = "publishFollowList"
    /\ \E i \in 1..Len(op[c].followList) : ~EntryAccepted(op[c].followList[i])

\* C12: publishFollowList with a malformed entry anywhere in the list is
\* rejected within the invocation: signEvent is not called, publish is not
\* called, nothing is awaited, and the rate limiter is neither passed nor
\* changed.
MalformedListRejected ==
    /\ [](\A c \in Callers :
            Malformed(c)
              => /\ op[c].promise.st = "rejected"
                 /\ op[c].promise.val \in {ErrInvalidPubkey, ErrInvalidRelay}
                 /\ op[c].signCalls = 0
                 /\ op[c].netCalls = 0
                 /\ op[c].suspensions = 0
                 /\ ~op[c].rateLimited)
    /\ [][\A c \in Callers :
            (Malformed(c)' /\ op[c].pc = "idle") => lastActionAt' = lastActionAt]_vars

\* C12: a list whose second entry is malformed has been rejected.
MalformedSecondRejected ==
    \E c \in Callers :
       /\ Malformed(c)
       /\ Len(op[c].followList) = 2
       /\ EntryAccepted(op[c].followList[1])
       /\ op[c].promise.st = "rejected"

\* C13: in the event publishFollowList has given to publish, every p tag
\* has a valid pubkey at index 1 and, at index 2, nothing or a relay URL.
PublishedTagsWellFormed ==
    \A c \in Callers :
       (op[c].kind = "publishFollowList" /\ HasSubscribed(c))
         => \A i \in 1..Len(op[c].tags) :
               LET tag == op[c].tags[i]
               IN  TagAt(tag, 1) = "p"
                     => /\ isValidPubkey(TagAt(tag, 2))
                        /\ TagAt(tag, 3) = "" \/ isValidRelayUrl(TagAt(tag, 3))

\* C14: the tags publishFollowList has built of an accepted list decode,
\* with the decoder of fetchFollowList, to the entries of the list.
FollowListRoundTrip ==
    \A c \in Callers :
       (op[c].kind = "publishFollowList" /\ op[c].signCalls > 0)
         => decodeFollowList(op[c].tags) = op[c].followList

\* the call of c is fetchMultipleProfiles with an empty list of pubkeys
EmptyList(c) == op[c].kind = "fetchMultipleProfiles" /\ op[c].pubkeys = << >>

\* C17 as stated: fetchMultipleProfiles with an empty list of pubkeys has
\* returned an empty map, without a call of query and without passing or
\* waiting in the rate limiter.
EmptyListGivesEmptyMap ==
    \A c \in Callers :
       EmptyList(c)
         => /\ op[c].promise = [st |-> "resolved", val |-> MapOf(EmptyMap)]
            /\ op[c].netCalls = 0
            /\ op[c].suspensions = 0
            /\ ~op[c].rateLimited

\* C17 as amended: on an engine with an event store attached,
\* fetchMultipleProfiles with an empty list of pubkeys returns an empty map
\* within the invocation; attached or not, it calls no query, starts no
\* timer, does not wait in the rate limiter and leaves the recorded times
\* as they are. Without a store it is rejected as not initialized.
EmptyListShortCircuits ==
    /\ [](\A c \in Callers :
            EmptyList(c)
              => /\ op[c].promise =
                      IF op[c].invokedStore
                      THEN [st |-> "resolved", val |-> MapOf(EmptyMap)]
                      ELSE [st |-> "rejected", val |-> ErrNotInitialized]
                 /\ op[c].netCalls = 0
                 /\ op[c].suspensions = 0
                 /\ op[c].timer = "none"
                 /\ ~op[c].rateLimited)
    /\ [][\A c \in Callers :
            (EmptyList(c)' /\ op[c].pc = "idle")
              => lastActionAt' = lastActionAt]_vars

\* C17: an empty list has been answered with an empty map at a time when a
\* fetchMultipleProfiles that asks for a pubkey would wait in the rate limiter.
EmptyListNoWait ==
    \E c \in Callers :
       /\ EmptyList(c)
       /\ op[c].promise.st = "resolved"
       /\ lastActionAt["fetch-multiple-profiles"] = now

----------------------------------------------------------------------------
\* Properties of the reads, stated over the log of the source's callbacks.

\* the places in the log where a kind-0 record was delivered
ProfileRecords ==
    {i \in 1..Len(seen.items) :
       /\ seen.items[i].type = "next"
       /\ seen.items[i].item.event # Undefined
       /\ seen.items[i].item.event.kind = 0}

RecordAt(i) == seen.items[i].item.event

\* those of them whose content decodes
DecodableRecords ==
    {i \in ProfileRecords :
       parseProfileMetadata(RecordAt(i).content) \notin {Null, Thrown}}

MetadataAt(i) == parseProfileMetadata(RecordAt(i).content).v

Authors(places) == {RecordAt(i).pubkey : i \in places}

By(author, places) == {i \in places : RecordAt(i).pubkey = author}

\* the place of the record that latest-wins retains: the greatest
\* created_at, and of several such the one delivered first
Latest(places) ==
    CHOOSE i \in places :
       \A j \in places :
          \/ RecordAt(i).created_at > RecordAt(j).created_at
          \/ RecordAt(i).created_at = RecordAt(j).created_at /\ i <= j

\* the place of the record delivered last
LastOf(places) == CHOOSE i \in places : \A j \in places : j <= i

\* the place of the record delivered first
FirstOf(places) == CHOOSE i \in places : \A j \in places : i <= j

\* C15 as stated: the map queryProfiles resolves with has, for each author
\* of a kind-0 record delivered, one entry, the metadata of a record of the
\* greatest created_at among the author's records.
LatestOfAllWins ==
    \A c \in Callers :
       (op[c].kind = "queryProfiles" /\ op[c].promise.st = "resolved")
         => LET result == Result(op[c]).v
            IN  /\ DOMAIN result = Authors(ProfileRecords)
                /\ \A a \in DOMAIN result :
                      LET i == Latest(By(a, ProfileRecords))
                      IN  parseProfileMetadata(RecordAt(i).content) = Metadata(result[a])

\* C15 as amended: the map queryProfiles resolves with has one entry for
\* each author of a delivered kind-0 record whose content decodes, and no
\* other: the metadata of the record of the greatest created_at among the
\* author's decodable records, the first delivered of several equally new.
LatestDecodableWins ==
    \A c \in Callers :
       (op[c].kind = "queryProfiles" /\ op[c].promise.st = "resolved")
         => Result(op[c]).v =
              [a \in Authors(DecodableRecords) |->
                 MetadataAt(Latest(By(a, DecodableRecords)))]

\* C15: queryProfiles has resolved after two decodable records of one
\* author, the second no newer than the first and with other metadata.
OlderDeliveredLater ==
    \E c \in Callers :
       /\ op[c].kind = "queryProfiles"
       /\ op[c].promise.st = "resolved"
       /\ \E i, j \in DecodableRecords :
             /\ i < j
             /\ RecordAt(i).pubkey = RecordAt(j).pubkey
             /\ RecordAt(j).created_at <= RecordAt(i).created_at
             /\ MetadataAt(i) # MetadataAt(j)

\* C16: the map fetchMultipleProfiles resolves with has one entry for each
\* author of a delivered kind-0 record whose content decodes, and no other:
\* the metadata of the last such record delivered, whatever its created_at.
LastObservedWins ==
    \A c \in Callers :
       (op[c].kind = "fetchMultipleProfiles" /\ op[c].promise.st = "resolved"
          /\ op[c].pubkeys # << >>)
         => Result(op[c]).v =
              [a \in Authors(DecodableRecords) |->
                 MetadataAt(LastOf(By(a, DecodableRecords)))]

\* C16: fetchMultipleProfiles has resolved after a decodable record and a
\* later, older one of the same author with other metadata.
OlderReplacedNewer ==
    \E c \in Callers :
       /\ op[c].kind = "fetchMultipleProfiles"
       /\ op[c].promise.st = "resolved"
       /\ \E i, j \in DecodableRecords :
             /\ i < j
             /\ RecordAt(i).pubkey = RecordAt(j).pubkey
             /\ RecordAt(j).created_at < RecordAt(i).created_at
             /\ MetadataAt(i) # MetadataAt(j)

\* C18: a settled fetchProfile has resolved with the metadata of the first
\* decodable kind-0 record delivered, and with null only if none was.
FirstDecodableReturned ==
    \A c \in Callers :
       (op[c].kind = "fetchProfile" /\ Settled(op[c]) /\ HasSubscribed(c))
         => /\ op[c].promise.st = "resolved"
            /\ op[c].promise.val =
                 IF DecodableRecords = {} THEN Null
                 ELSE Metadata(MetadataAt(FirstOf(DecodableRecords)))

\* the role of a list of tags: of the tags that are role tags with a valid
\* trimmed value the first one's trimmed value, null if there is none
RoleOf(tags) ==
    LET valid == {i \in 1..Len(tags) :
                    /\ Len(tags[i]) >= 2
                    /\ tags[i][1] = "role"
                    /\ isValidRoleTag(Trim(tags[i][2]))}
    IN  IF valid = {} THEN Null
        ELSE Str(Trim(tags[CHOOSE i \in valid : \A j \in valid : i <= j][2]))

\* C19: what fetchProfileRoleTag resolves with on a kind-0 record is the
\* role of the record's tags.
RoleTagExtracted ==
    \A c \in Callers :
       (op[c].kind = "fetchProfileRoleTag" /\ op[c].settledBy = "next")
         => /\ op[c].promise.st = "resolved"
            /\ op[c].promise.val = RoleOf(RecordAt(Len(seen.items)).tags)

\* C19: fetchProfileRoleTag has resolved on a record whose first role tag is
\* invalid and whose second one is valid once trimmed.
RoleAfterInvalidRole ==
    \E c \in Callers :
       /\ op[c].kind = "fetchProfileRoleTag"
       /\ op[c].settledBy = "next"
       /\ RecordAt(Len(seen.items)) = RecordA1
       /\ op[c].promise.val = Str("admin")

\* the kind a read asks for
Queried(kind) == IF kind = "fetchFollowList" THEN 3 ELSE 0

\* C20: a step in which the source delivers to a read only records of
\* another kind than the read asks for neither settles the read nor changes
\* the profiles it has collected.
OtherKindIgnored ==
    [][\A c \in Callers :
         LET new == SubSeq(seen'.items, Len(seen.items) + 1, Len(seen'.items))
         IN  (/\ op[c].kind \in Reads
              /\ op'[c].kind = op[c].kind
              /\ new # << >>
              /\ \A i \in 1..Len(new) :
                    /\ new[i].type = "next"
                    /\ new[i].item.event # Undefined
                    /\ new[i].item.event.kind # Queried(op[c].kind))
               => /\ op'[c].promise = op[c].promise
                  /\ op'[c].profiles = op[c].profiles]_vars

\* C20: a read is still pending after a record of another kind that has
\* tags and an author.
OtherKindDelivered ==
    \E c \in Callers :
       /\ op[c].kind \in Reads
       /\ ~Settled(op[c])
       /\ seen.items # << >>
       /\ seen.items[Len(seen.items)].type = "next"
       /\ RecordAt(Len(seen.items)) # Undefined
       /\ RecordAt(Len(seen.items)).kind # Queried(op[c].kind)
       /\ RecordAt(Len(seen.items)).tags # << >>

----------------------------------------------------------------------------
\* Properties of the rate limiter.

\* the name under which an operation passes the rate limiter
ActionOf(kind) ==
    CASE kind = "fetchProfile" -> "fetch-profile"
      [] kind = "fetchProfileRoleTag" -> "fetch-role-tag"
      [] kind = "fetchFollowList" -> "fetch-follow-list"
      [] kind = "fetchMultipleProfiles" -> "fetch-multiple-profiles"
      [] kind = "queryProfiles" -> "query-profiles"
      [] OTHER -> "publish"

\* the call of c enters enforceRateLimit in this step
EntersLimiter(c) ==
    /\ op[c].pc \in {"idle", "signing"}
    /\ op'[c].pc \in {"rateLimit", "executor"}

\* C21: a call that enters the rate limiter at time t, the last run of its
\* action recorded as L, is suspended if and only if m - (t - L) > 0, and
\* then until t + (m - (t - L)); the recorded time stays as it is while the
\* call is suspended or has not come, and becomes the time at which the
\* call goes on, which is t for a call that was not suspended and the end
\* of the suspension for one that was.
RateLimiterWaits ==
    [][\A c \in Callers :
         LET kind == op'[c].kind
             a == ActionOf(kind)
             m == MinIntervalMs(kind)
             remaining == m - (now - lastActionAt[a])
         IN  /\ (EntersLimiter(c) /\ remaining > 0)
                  => /\ op'[c].pc = "rateLimit"
                     /\ op'[c].resumeAt = now + remaining
                     /\ lastActionAt' = lastActionAt
             /\ (EntersLimiter(c) /\ remaining <= 0)
                  => /\ op'[c].pc = "executor"
                     /\ lastActionAt'[a] = now
             /\ (op[c].pc = "rateLimit" /\ op'[c].pc # "rateLimit")
                  => /\ op'[c].pc = "executor"
                     /\ now = op[c].resumeAt
                     /\ lastActionAt'[a] = now]_vars

\* C21: a call that came one Tick after the last run of its action is
\* suspended for the interval less one Tick.
CallWaitsRemainder ==
    \E c \in Callers :
       /\ op[c].pc = "rateLimit"
       /\ op[c].readAt > 0
       /\ op[c].resumeAt - now = MinIntervalMs(op[c].kind) - Tick

\* c and d have passed the rate limiter under one action, having read the
\* same last-run time
Raced(c, d) ==
    /\ c # d
    /\ op[c].kind # "none"
    /\ ActionOf(op[c].kind) = ActionOf(op[d].kind)
    /\ op[c].rateLimited /\ op[d].rateLimited
    /\ op[c].readAt = op[d].readAt

\* C22: two calls in flight for one action that have read the same last-run
\* time have both been admitted, less than the interval apart.
RacingCallsAdmittedTogether ==
    \A c, d \in Callers :
       Raced(c, d)
         => /\ op[c].admittedAt - op[d].admittedAt < MinIntervalMs(op[c].kind)
            /\ op[d].admittedAt - op[c].admittedAt < MinIntervalMs(op[c].kind)

\* C22: two calls for one action, made at different times after a run of
\* the action, have read the time of that run and have been admitted at
\* the same time.
BothAdmittedAtOnce ==
    \E c, d \in Callers :
       /\ Raced(c, d)
       /\ op[c].readAt > 0
       /\ op[c].suspensions > 0 /\ op[d].suspensions > 0
       /\ op[c].admittedAt = op[d].admittedAt

\* C23: a step changes the recorded time of no other action than the one
\* of a call that passes the rate limiter in it; whether a call is
\* suspended, and until when, depends on the recorded time of its own
\* action alone; and a call for an action that has not run is not suspended,
\* whatever other calls are in flight.
ActionsIndependent ==
    [][/\ \A a \in Actions :
            lastActionAt'[a] # lastActionAt[a]
              => \E c \in Callers :
                    /\ ActionOf(op'[c].kind) = a
                    /\ op'[c].rateLimited /\ ~op[c].rateLimited
       /\ \A c \in Callers :
            EntersLimiter(c)
              => LET own == lastActionAt[ActionOf(op'[c].kind)]
                     m == MinIntervalMs(op'[c].kind)
                 IN  /\ op'[c].readAt = own
                     /\ (op'[c].pc = "rateLimit") = (m - (now - own) > 0)
                     /\ own = 0 => op'[c].pc = "executor"]_vars

\* C23: fetchProfile and fetchProfileRoleTag, called at the same time, are
\* in flight together and both have passed the rate limiter at the time of
\* their call, without a suspension.
StartedTogether ==
    \E c, d \in Callers :
       /\ op[c].kind = "fetchProfile"
       /\ op[d].kind = "fetchProfileRoleTag"
       /\ op[c].rateLimited /\ op[d].rateLimited
       /\ op[c].suspensions = 0 /\ op[d].suspensions = 0
       /\ op[c].admittedAt = op[d].admittedAt

----------------------------------------------------------------------------
\* Properties of the profile decoder, where the relays hold one record.

\* the content of the record the relays hold
HeldContent == (CHOOSE packet \in held : TRUE).event.content

\* the record has been delivered to the next callback of the call of c
Delivered(c) ==
    /\ op[c].kind \in {"fetchProfile", "fetchMultipleProfiles"}
    /\ \E i \in 1..Len(seen.items) : seen.items[i].type = "next"

\* the content is a text that parses to a key-value object
ParsesToObject(content) == content.str /\ content.json.t = "object"

\* the string-typed fields under the five keys of ProfileMetadata
Kept(fields) ==
    [k \in {f \in {"name", "display_name", "about", "picture", "website"}
                  \cap DOMAIN fields : fields[f].ty = "string"}
       |-> fields[k].v]

\* what the reads have made of a record decoded to metadata
DecodedAs(c, metadata) ==
    /\ op[c].kind = "fetchMultipleProfiles"
         => op[c].profiles = [a \in {PkA} |-> metadata]
    /\ (op[c].kind = "fetchProfile" /\ op[c].settledBy = "next")
         => op[c].promise.val = Metadata(metadata)

\* what the reads have made of a record decoded to null
DecodedAsNull(c) ==
    /\ op[c].kind = "fetchMultipleProfiles" => op[c].profiles = EmptyMap
    /\ op[c].kind = "fetchProfile" => op[c].settledBy # "next"

\* C24 as stated: a content that parses to a key-value object is decoded to
\* the string-typed fields under the five whitelisted keys, and the text
\* the result is serialized to is decoded to the same result.
DecodeKeepsWhitelistAlways ==
    \A c \in Callers :
       (Delivered(c) /\ ParsesToObject(HeldContent))
         => LET metadata == Kept(HeldContent.json.fields)
            IN  /\ DecodedAs(c, metadata)
                /\ parseProfileMetadata(stringify(metadata)) = Metadata(metadata)

\* C24 as amended: a content of at most maxProfileContentSize characters
\* that parses to a key-value object is decoded to the string-typed fields
\* under the five whitelisted keys, and the text the result is serialized
\* to, if it is no longer than maxProfileContentSize, is decoded to the
\* same result.
DecodeKeepsWhitelist ==
    \A c \in Callers :
       (Delivered(c) /\ ParsesToObject(HeldContent)
          /\ HeldContent.len <= maxProfileContentSize)
         => LET metadata == Kept(HeldContent.json.fields)
            IN  /\ DecodedAs(c, metadata)
                /\ stringify(metadata).len <= maxProfileContentSize
                     => parseProfileMetadata(stringify(metadata)) = Metadata(metadata)

\* C24: a record whose content has a string under name, a number under
\* website and a string under a key outside the whitelist has been decoded
\* to the name alone.
ExtraKeyDropped ==
    \E c \in Callers :
       /\ op[c].kind = "fetchMultipleProfiles"
       /\ ParsesToObject(HeldContent)
       /\ DOMAIN HeldContent.json.fields = {"name", "website", "extra"}
       /\ HeldContent.json.fields["extra"].ty = "string"
       /\ HeldContent.json.fields["website"].ty = "number"
       /\ PkA \in DOMAIN op[c].profiles
       /\ DOMAIN op[c].profiles[PkA] = {"name"}

\* C25: a content that does not parse, or that parses to a number, a
\* string, a boolean, null or an array, is decoded to null.
NonObjectDecodesToNull ==
    \A c \in Callers :
       (Delivered(c) /\ HeldContent.str /\ HeldContent.json.t # "object")
         => DecodedAsNull(c)

\* C26: no read is rejected with an exception that the decoder has thrown
\* in the next callback.
DecodeNeverThrows ==
    \A c \in Callers : op[c].promise.val # ErrType

\* C27: a content longer than maxProfileContentSize is decoded to null,
\* whatever it parses to, and a content of exactly that length that parses
\* to a key-value object is decoded to metadata.
SizeCeilingRejects ==
    \A c \in Callers :
       /\ (Delivered(c) /\ HeldContent.str
             /\ HeldContent.len > maxProfileContentSize)
            => DecodedAsNull(c)
       /\ (Delivered(c) /\ ParsesToObject(HeldContent)
             /\ HeldContent.len = maxProfileContentSize
             /\ op[c].kind = "fetchMultipleProfiles")
            => PkA \in DOMAIN op[c].profiles

\* C27: a record whose content is one character longer than
\* maxProfileContentSize and parses to an object with a name has been
\* delivered to a batch read, which has no entry for it.
OversizeObjectDropped ==
    \E c \in Callers :
       /\ op[c].kind = "fetchMultipleProfiles"
       /\ Delivered(c)
       /\ ParsesToObject(HeldContent)
       /\ "name" \in DOMAIN Kept(HeldContent.json.fields)
       /\ HeldContent.len = maxProfileContentSize + 1
       /\ op[c].profiles = EmptyMap

----------------------------------------------------------------------------
\* Properties of the check of a public key.

\* every character of s is one of 0-9, a-f, A-F
AllHexDigits(s) == s \in {PkA, PkB, PkShort, PkLong, PkUpper, ""}

\* C28: publishFollowList refuses the public key of an entry if and only
\* if it is not a string of exactly 64 characters that are all hex digits.
PubkeyValidIffHex64 ==
    \A c \in Callers :
       (op[c].kind = "publishFollowList" /\ Len(op[c].followList) = 1)
         => LET pubkey == op[c].followList[1].pubkey
            IN  (op[c].promise.val = ErrInvalidPubkey)
                  <=> ~(StrLength(pubkey) = 64 /\ AllHexDigits(pubkey))

\* C28: an entry whose public key has 65 hex digits has been refused.
LongPubkeyRefused ==
    \E c \in Callers :
       /\ op[c].kind = "publishFollowList"
       /\ Len(op[c].followList) = 1
       /\ op[c].followList[1].pubkey = PkLong
       /\ op[c].promise.val = ErrInvalidPubkey

----------------------------------------------------------------------------
\* Properties of the deadlines.

\* the delay of the deadline timer of each read
ConfiguredDeadline(kind) ==
    CASE kind \in {"fetchProfile", "fetchProfileRoleTag"} -> 5000
      [] kind \in {"fetchFollowList", "queryProfiles"} -> 10000
      [] OTHER -> 1000

\* the value of a read that has found nothing
EmptyValue(kind) ==
    CASE kind \in {"fetchProfile", "fetchProfileRoleTag"} -> Null
      [] kind = "fetchFollowList" -> List(<< >>)
      [] OTHER -> MapOf(<< >>)

\* the call of c starts its deadline timer in this step
ArmsTimer(c) == op[c].timer = "none" /\ op'[c].timer = "armed"

\* C29: the deadline timer of a read is set to the configured delay after
\* the read has subscribed; a read whose source has run no callback is
\* settled by no step but the firing of that timer, at the time the timer
\* is due, with its empty value; and time does not pass the deadline with
\* the timer still to fire.
SilentReadSettlesAtDeadline ==
    [][\A c \in Callers :
         /\ (ArmsTimer(c) /\ op'[c].kind \in Reads)
              => op'[c].deadline = now + ConfiguredDeadline(op'[c].kind)
         /\ (/\ op[c].kind \in Reads
             /\ op[c].netCalls > 0
             /\ op'[c].emitted = 0
             /\ ~Settled(op[c])
             /\ Settled(op'[c]))
              => /\ op'[c].settledBy = "timeout"
                 /\ now = op[c].deadline
                 /\ op'[c].promise.st = "resolved"
                 /\ Result(op'[c]) = EmptyValue(op[c].kind)
         /\ (op[c].timer = "armed" /\ now >= op[c].deadline) => now' = now]_vars

\* C29: fetchFollowList, whose source has run no callback, has been
\* settled by its timer, 10 s after it was admitted.
SilentFollowListTimedOut ==
    \E c \in Callers :
       /\ op[c].kind = "fetchFollowList"
       /\ op[c].emitted = 0
       /\ op[c].settledBy = "timeout"
       /\ now = op[c].admittedAt + 10000
       /\ op[c].promise.val = List(<< >>)

\* C30: the deadline timer of fetchMultipleProfiles is set to a longer
\* delay than those of fetchProfile and fetchProfileRoleTag, and that of
\* fetchFollowList to 10 s.
BatchDeadlineLonger ==
    [][\A c \in Callers :
         /\ (ArmsTimer(c) /\ op'[c].kind = "fetchMultipleProfiles")
              => /\ op'[c].deadline - now > fetchProfileTimeoutMs
                 /\ op'[c].deadline - now > fetchRoleTagTimeoutMs
         /\ (ArmsTimer(c) /\ op'[c].kind = "fetchFollowList")
              => op'[c].deadline - now = 10000]_vars

\* C31: no retries. A call of a read calls the store's query at most once,
\* and a call of publishEvent or publishFollowList calls the store's publish
\* at most once, whether the source delivers, fails or stays silent until
\* the deadline.
NoRetries ==
    \A c \in Callers : op[c].netCalls <= 1

\* a read whose source failed has settled, after one call of query
FailedReadQueriedOnce ==
    \E c \in Callers :
        /\ op[c].kind \in Reads
        /\ op[c].gotError
        /\ op[c].settledBy = "error"
        /\ op[c].netCalls = 1

\* the tags are one p tag for each entry of the list, in the order of the list
OneTagPerEntry(followList, tags) ==
    /\ Len(tags) = Len(followList)
    /\ \A i \in 1..Len(followList) :
          /\ TagAt(tags[i], 1) = "p"
          /\ TagAt(tags[i], 2) = followList[i].pubkey

\* every entry of the list has a valid pubkey and no relay or a valid one
AcceptedList(followList) ==
    \A i \in 1..Len(followList) :
       /\ isValidPubkey(followList[i].pubkey)
       /\ followList[i].relay = "" \/ isValidRelayUrl(followList[i].relay)

\* C32: publishFollowList with a valid list has built one kind-3 event with
\* empty content and one p tag per entry in the order of the list, and has
\* called signEvent once, with that event; publishEvent is called only after
\* signEvent has resolved, with the event signEvent resolved with, which is
\* the one given to the store's publish; when signEvent rejects there is no
\* call of publishEvent or publish and the last-run times stay as they are.
FollowListSignedThenPublished ==
    /\ [](\A c \in Callers :
            (op[c].kind = "publishFollowList" /\ AcceptedList(op[c].followList))
              => /\ op[c].built.kind = 3
                 /\ op[c].built.content = ""
                 /\ OneTagPerEntry(op[c].followList, op[c].built.tags)
                 /\ op[c].signCalls = 1
                 /\ op[c].event # Undefined
                      => op[c].signed # Undefined /\ op[c].event = op[c].signed
                 /\ op[c].netCalls > 0 => op[c].published = op[c].signed
                 /\ op[c].netCalls = 0 => op[c].published = Undefined
                 /\ (op[c].signed = Undefined \/ op[c].settledBy = "sign")
                      => /\ op[c].netCalls = 0
                         /\ op[c].event = Undefined
                         /\ ~op[c].rateLimited
                         /\ op[c].pc \in {"signing", "returned"})
    /\ [][\A c \in Callers :
             (op[c].pc = "signing" /\ op'[c].settledBy = "sign")
               => lastActionAt' = lastActionAt]_vars

\* a list of two entries has been signed and given to the store's publish
TwoEntriesPublished ==
    \E c \in Callers :
        /\ op[c].kind = "publishFollowList"
        /\ Len(op[c].followList) = 2
        /\ op[c].netCalls = 1
        /\ op[c].published = Signed(FollowListEvent(encodeFollowList(op[c].followList)))

\* signEvent has rejected
SignRejected ==
    \E c \in Callers : op[c].kind = "publishFollowList" /\ op[c].settledBy = "sign"

\* the call of c is a read in flight: subscribed, not settled, timer running
InFlight(c) ==
    /\ op[c].kind \in Reads
    /\ op[c].pc = "subscribed"
    /\ ~Settled(op[c])
    /\ op[c].source = "live"
    /\ op[c].timer = "armed"

\* C33: reads in flight at once are isolated. No step changes the calls of
\* two callers: when the source of one delivers, completes or fails, or its
\* deadline timer fires, the promise, the subscription, the accumulator and
\* the timer of every other call stay as they are.
ReadsIsolated ==
    [][\A c \in Callers, d \in Callers :
          (c # d /\ op'[c] # op[c]) => op'[d] = op[d]]_vars

\* two reads were in flight and the one admitted later has settled first, by
\* its timer or by an error of its source, while the other is still in flight
LaterReadSettledFirst ==
    \E c \in Callers, d \in Callers :
        /\ c # d
        /\ op[c].kind \in Reads
        /\ op[c].settledBy \in {"error", "timeout"}
        /\ op[c].unsubscribed
        /\ InFlight(d)
        /\ op[d].admittedAt < op[c].admittedAt

\* queryProfiles was called without pubkeys or with an empty list
Discovery(c) ==
    /\ op[c].kind = "queryProfiles"
    /\ op[c].given.pubkeys \in {Undefined, List(<< >>)}

\* C34: the filter queryProfiles passes to query has kinds [0] and the limit
\* it was called with, 100 when none was given; without pubkeys or with an
\* empty list it has no authors field, and the query is still made; with a
\* non-empty list its authors are that list.
QueryProfilesFilter ==
    \A c \in Callers :
       (op[c].kind = "queryProfiles" /\ op[c].rateLimited /\ op[c].pc # "executor"
          /\ eventStore.query)
         => LET g == op[c].given
                f == op[c].filter
            IN  /\ op[c].netCalls = 1
                /\ f.kinds = << 0 >>
                /\ f.limit = (IF g.limit = Undefined THEN defaultLimit ELSE g.limit.v)
                /\ IF Discovery(c)
                   THEN DOMAIN f = {"kinds", "limit"}
                   ELSE /\ DOMAIN f = {"kinds", "limit", "authors"}
                        /\ f.authors = g.pubkeys.v

\* queryProfiles was called with no argument and has queried the relays for
\* up to 100 records of kind 0 of any author
DiscoveryQueried ==
    \E c \in Callers :
        /\ op[c].kind = "queryProfiles"
        /\ op[c].given = [pubkeys |-> Undefined, limit |-> Undefined]
        /\ op[c].netCalls = 1
        /\ op[c].filter = [kinds |-> << 0 >>, limit |-> 100]

\* the interval enforceRateLimit is called with for an action
IntervalOf(action) ==
    IF action = "publish" THEN minPublishIntervalMs ELSE minProfileQueryIntervalMs

\* C35: where the calls of enforceRateLimit for an action follow one another,
\* each made after the one before it has returned, the time recorded for the
\* action, which is the time at which a call returns, never decreases, and
\* two consecutive ones are at least the interval of the action apart.
SequentialCallsSpaced ==
    [][/\ \A a \in Actions : lastActionAt'[a] >= lastActionAt[a]
       /\ \A c \in Callers :
             (~op[c].rateLimited /\ op'[c].rateLimited)
               => LET a == ActionOf(op'[c].kind)
                  IN  /\ now' - lastActionAt[a] >= IntervalOf(a)
                      /\ lastActionAt'[a] = now']_vars

\* a publish that came half a read interval after the publish before it has
\* waited the rest of the publish interval
LaterPublishSpaced ==
    \E c \in Callers :
        /\ op[c].kind = "publishEvent"
        /\ op[c].rateLimited
        /\ op[c].suspensions > 0
        /\ op[c].readAt = FirstStart
        /\ op[c].admittedAt = FirstStart + minPublishIntervalMs
        /\ lastActionAt["publish"] = op[c].admittedAt

\* C36: every URL of the relay set of the service passes isValidRelayUrl, in
\* every state reached from a construction with any configuration by calls
\* of initialize, setRelays and getRelays, refused calls of setRelays and
\* changes of the arrays getRelays has returned.
RelaySetValid ==
    \A i \in 1..Len(relayUrls) : isValidRelayUrl(relayUrls[i])

\* a caller has put an invalid URL into the array it got from getRelays and
\* setRelays has refused a list, while the service has a set of two relays
ReturnedArrayMutated ==
    /\ client.page = "caller"
    /\ \E i \in 1..Len(client.relays) : ~isValidRelayUrl(client.relays[i])
    /\ raised = ErrInvalidRelayUrl
    /\ Len(relayUrls) = 2

\* C37: a publish that has passed the check of initialization records a new
\* last-run time for 'publish' before the relay set and the store's publish
\* method are checked: a publish rejected for want of relays or of a publish
\* method has been through the rate limiter and its time is the last-run
\* time, and a publish that waits resumes one publish interval after the
\* last-run time it has read.
RejectedPublishTakesSlot ==
    \A c \in Callers :
       /\ op[c].promise.val \in {ErrNoRelays, ErrNoPublish}
            => /\ op[c].rateLimited
               /\ op[c].netCalls = 0
               /\ op[c].admittedAt >= ConstructedAt
               /\ lastActionAt["publish"] = op[c].admittedAt
       /\ (op[c].kind \in Publishes /\ op[c].pc = "rateLimit")
            => op[c].resumeAt = op[c].readAt + minPublishIntervalMs

\* On a store without a publish method, where every publish is rejected, a
\* publish waits the whole publish interval behind the rejected one before it.
PublishWaitsBehindRejected ==
    \E c \in Callers :
        /\ eventStore.attached
        /\ ~eventStore.publish
        /\ op[c].kind = "publishEvent"
        /\ op[c].pc = "rateLimit"
        /\ op[c].readAt = ConstructedAt
        /\ op[c].resumeAt = ConstructedAt + minPublishIntervalMs

\* C38: handleSubmit has called publishEvent with the kind-0 event first; it
\* calls publishEvent with the kind-3 event only after the publish of the
\* kind-0 event has settled without a rejection, and the tags of the kind-3
\* event are exactly one p tag of the author's own pubkey, whatever kind-3
\* record of the author the relays hold; the event the service gives to the
\* store's publish is the one the page has passed last.
SubmitPublishesProfileThenFollows ==
    client.page = "profile"
      => /\ Len(client.sent) <= 2
         /\ Len(client.sent) >= 1
              => /\ client.sent[1].kind = 0
                 /\ client.sent[1] = client.signedProfile
         /\ Len(client.sent) = 2
              => /\ client.sent[2].kind = 3
                 /\ client.sent[2] = client.signedFollows
                 /\ client.sent[2].content = ""
                 /\ Len(client.sent[2].tags) = 1
                 /\ TagAt(client.sent[2].tags[1], 1) = "p"
                 /\ TagAt(client.sent[2].tags[1], 2) = client.publicKey
                 /\ Len(client.outcomes) >= 1
                 /\ client.outcomes[1] = "resolved"
         /\ \A i \in 1..Len(client.outcomes) :
                (client.outcomes[i] = "rejected") => i = Len(client.sent)
         /\ op["c1"].netCalls > 0
              => op["c1"].published = client.sent[Len(client.sent)]

\* the page has published both events and ended without an error, while the
\* relays hold a kind-3 record of the author with other tags
ProfileSavedOverPriorList ==
    /\ client.page = "profile"
    /\ client.pc = "idle"
    /\ client.outcomes = << "resolved", "resolved" >>
    /\ client.saveMessage = "Profile saved successfully!"
    /\ [event |-> RecordFollows] \in held
    /\ RecordFollows.pubkey = client.publicKey
    /\ RecordFollows.tags # client.sent[2].tags

\* C39: `members` of the membership page changes only in the step in which
\* publishFollowList has settled without a rejection, and then it is the
\* list publishFollowList was called with; when publishFollowList has
\* rejected, or the pubkey to add is a member already and nothing is
\* published, it stays as it is; and isSaving is false whenever no handler
\* is running.
MembersFollowPublish ==
    /\ [](client.page = "membership"
            => /\ client.pc = "idle" => ~client.isSaving
               /\ client.pc = "saving" => op["c1"].kind = "publishFollowList")
    /\ [][client.page = "membership"
            => /\ client'.members # client.members
                    => /\ client.pc = "saving"
                       /\ op["c1"].promise.st = "resolved"
               /\ (client.pc = "saving" /\ client'.pc = "idle")
                    => /\ Settled(op["c1"])
                       /\ client'.members = IF op["c1"].promise.st = "resolved"
                                             THEN op["c1"].followList
                                             ELSE client.members
               /\ (client.pc = "idle" /\ client'.pc = "idle") => calls' = calls]_vars

\* a second member has been added after the publish of the list of two
MemberAdded ==
    /\ client.page = "membership"
    /\ client.pc = "idle"
    /\ client.saveMessage = "Member added successfully!"
    /\ client.members = << Entry(PkA, "", "alice"), Entry(PkB, "", "") >>

\* the publish of a new list has been rejected and the members are the old ones
MemberRefused ==
    /\ client.page = "membership"
    /\ client.pc = "idle"
    /\ client.saveMessage = "Failed to remove member. Please try again."
    /\ client.members # client.newMembers

\* the places of the log at which a collaborator was called
CallsOf(name) == {i \in 1..Len(client.log) : client.log[i].call = name}

\* C40: the step of the registration flow goes from info to creating and
\* from creating to success or back to info, and never leaves success. It is
\* success only if createPasskey and then createNostrKey have resolved, and
\* then setCurrentKeyInfo and setAuthenticated have each been called once,
\* in this order, with the key info createNostrKey resolved with. After a
\* failed attempt the step is info, the error is set, isLoading is false and
\* setAuthenticated has not been called. Every call of createPasskey comes
\* after a call of clearStoredKeyInfo of the same attempt.
RegistrationOrder ==
    /\ [](client.page = "registration"
            => /\ client.step = "creating" <=> client.pc # "idle"
               /\ client.step = "success"
                    => /\ client.credentialId \in CredentialIds
                       /\ client.keyInfo \in KeyInfos
                       /\ client.log =
                            << Called("clearStoredKeyInfo", Undefined),
                               Called("createPasskey", PasskeyUsername(client.username)),
                               Called("createNostrKey", client.credentialId),
                               Called("setCurrentKeyInfo", client.keyInfo),
                               Called("setAuthenticated", client.keyInfo) >>
                       /\ client.authenticated = << client.keyInfo >>
               /\ client.step # "success"
                    => /\ client.authenticated = << >>
                       /\ CallsOf("setAuthenticated") = {}
               /\ (client.step = "info" /\ client.attempts > 0)
                    => /\ client.error # ""
                       /\ ~client.isLoading
               /\ \A i \in CallsOf("createPasskey") :
                      \E j \in CallsOf("clearStoredKeyInfo") : j < i)
    /\ [][client.page = "registration"
            => /\ (client'.step = "creating" /\ client.step # "creating")
                    => client.step = "info"
               /\ (client'.step = "success" /\ client.step # "success")
                    => client.step = "creating" /\ client.pc = "createNostrKey"
               /\ (client'.step = "info" /\ client.step # "info")
                    => client.step = "creating"]_vars

\* a second attempt has succeeded after a failed one
RegisteredOnSecondAttempt ==
    /\ client.page = "registration"
    /\ client.step = "success"
    /\ client.attempts = 2
    /\ client.error = ""
    /\ Len(client.authenticated) = 1

\* an attempt has failed in createNostrKey
RegistrationFailedAtKey ==
    /\ client.page = "registration"
    /\ client.step = "info"
    /\ client.error # ""
    /\ CallsOf("createNostrKey") # {}
    /\ CallsOf("setCurrentKeyInfo") = {}

====
